---- MODULE Spec2Model ----
(***************************************************************************)
(* Model of the schema-driven validation engine of api-biblioteca          *)
(* (src/api-biblioteca/src/utils/validators.ts) and of the ValidationError *)
(* it raises (src/api-biblioteca/src/errors/ValidationError.ts).           *)
(*                                                                         *)
(* A JavaScript value is a record [t, s, n]: t is its shape, s the         *)
(* characters of a string (or of the single string element of an array),   *)
(* n the magnitude of a number or the truth value of a boolean.  A string  *)
(* is a sequence of one-character strings.                                 *)
(***************************************************************************)
EXTENDS Integers, Sequences, FiniteSets, TLC

VARIABLES data, schema, errors, sanitizedData, last, result, thrown

vars == <<data, schema, errors, sanitizedData, last, result, thrown>>

(***************************************************************************)
(* JavaScript values                                                       *)
(***************************************************************************)
Undefined == [t |-> "undefined", s |-> <<>>, n |-> 0]
Null == [t |-> "null", s |-> <<>>, n |-> 0]
NaN == [t |-> "NaN", s |-> <<>>, n |-> 0]
Str(s) == [t |-> "string", s |-> s, n |-> 0]
Num(n) == [t |-> "number", s |-> <<>>, n |-> n]
Bool(b) == [t |-> "boolean", s |-> <<>>, n |-> IF b THEN 1 ELSE 0]
ArrayOf(s) == [t |-> "array", s |-> s, n |-> 0]
PlainObject == [t |-> "object", s |-> <<>>, n |-> 0]

\* typeof value
TypeOf(v) ==
  CASE v.t = "string" -> "string"
    [] v.t \in {"number", "NaN"} -> "number"
    [] v.t = "boolean" -> "boolean"
    [] v.t = "undefined" -> "undefined"
    [] OTHER -> "object"

\* value === undefined || value === null || value === ''
IsEmptyValue(v) == v = Undefined \/ v = Null \/ v = Str(<<>>)

(***************************************************************************)
(* Characters and strings                                                  *)
(***************************************************************************)
Digits == <<"0", "1", "2", "3", "4", "5", "6", "7", "8", "9">>
LowerCase == <<"a", "b", "c", "d", "e", "f", "g", "h", "i", "j", "k", "l", "m",
               "n", "o", "p", "q", "r", "s", "t", "u", "v", "w", "x", "y", "z">>
UpperCase == <<"A", "B", "C", "D", "E", "F", "G", "H", "I", "J", "K", "L", "M",
               "N", "O", "P", "Q", "R", "S", "T", "U", "V", "W", "X", "Y", "Z">>

Range(q) == {q[i] : i \in DOMAIN q}
IndexOf(q, c) == CHOOSE i \in DOMAIN q : q[i] = c

IsDigit(c) == c \in Range(Digits)
IsLower(c) == c \in Range(LowerCase)
IsUpper(c) == c \in Range(UpperCase)
IsLetter(c) == IsLower(c) \/ IsUpper(c)
\* \s of a regular expression, and the characters trim() removes
IsSpace(c) == c \in {" ", "\t", "\n"}
DigitValue(c) == IndexOf(Digits, c) - 1

ToUpperChar(c) == IF IsLower(c) THEN UpperCase[IndexOf(LowerCase, c)] ELSE c
ToLowerChar(c) == IF IsUpper(c) THEN LowerCase[IndexOf(UpperCase, c)] ELSE c
ToUpperCase(s) == [i \in DOMAIN s |-> ToUpperChar(s[i])]
ToLowerCase(s) == [i \in DOMAIN s |-> ToLowerChar(s[i])]

AllChars(s, P(_)) == \A i \in DOMAIN s : P(s[i])
Filter(s, P(_)) == SelectSeq(s, P)

RECURSIVE TrimStart(_)
TrimStart(s) == IF s # <<>> /\ IsSpace(Head(s)) THEN TrimStart(Tail(s)) ELSE s

RECURSIVE TrimEnd(_)
TrimEnd(s) ==
  IF s # <<>> /\ IsSpace(s[Len(s)]) THEN TrimEnd(SubSeq(s, 1, Len(s) - 1)) ELSE s

\* String.prototype.trim
Trim(s) == TrimEnd(TrimStart(s))

\* the value of a run of decimal digits
RECURSIVE DecimalValue(_)
DecimalValue(s) ==
  IF s = <<>> THEN 0
  ELSE 10 * DecimalValue(SubSeq(s, 1, Len(s) - 1)) + DigitValue(s[Len(s)])

\* the decimal digits of a natural number
RECURSIVE DecimalDigits(_)
DecimalDigits(n) ==
  IF n < 10 THEN <<Digits[n + 1]>>
  ELSE DecimalDigits(n \div 10) \o <<Digits[(n % 10) + 1]>>

\* the longest prefix of s made of digits
RECURSIVE DigitPrefix(_)
DigitPrefix(s) ==
  IF s # <<>> /\ IsDigit(Head(s)) THEN <<Head(s)>> \o DigitPrefix(Tail(s)) ELSE <<>>

\* String(value)
StringOf(v) ==
  CASE v.t = "string" -> v.s
    [] v.t = "number" -> DecimalDigits(v.n)
    [] v.t = "NaN" -> <<"N", "a", "N">>
    [] v.t = "boolean" -> IF v.n = 1 THEN <<"t", "r", "u", "e">>
                                     ELSE <<"f", "a", "l", "s", "e">>
    [] v.t = "array" -> v.s
    [] v.t = "object" -> <<"[", "o", "b", "j", "e", "c", "t", " ",
                           "O", "b", "j", "e", "c", "t", "]">>
    [] v.t = "null" -> <<"n", "u", "l", "l">>
    [] OTHER -> <<"u", "n", "d", "e", "f", "i", "n", "e", "d">>

\* Number(string): the empty or blank string is 0, a run of digits its value,
\* anything else NaN (the strings of the model carry no sign, fraction,
\* exponent or radix prefix)
StringToNumber(s) ==
  LET str == Trim(s)
  IN  IF str = <<>> THEN Num(0)
      ELSE IF AllChars(str, IsDigit) THEN Num(DecimalValue(str))
      ELSE NaN

\* Number(value)
ToNumber(v) ==
  CASE v.t = "number" -> v
    [] v.t = "NaN" -> NaN
    [] v.t = "boolean" -> Num(v.n)
    [] v.t = "null" -> Num(0)
    [] v.t = "undefined" -> NaN
    [] v.t = "object" -> NaN
    [] OTHER -> StringToNumber(v.s)

\* parseInt(value): the digits that start String(value) after leading blanks
ParseInt(v) ==
  LET p == DigitPrefix(TrimStart(StringOf(v)))
  IN  IF p = <<>> THEN NaN ELSE Num(DecimalValue(p))

(***************************************************************************)
(* Rules.  An optional member that is absent is "none" (NoBound for the    *)
(* numeric min and max).  A transform, a custom predicate, a pattern and   *)
(* an enum are named; the names stand for the functions, regular           *)
(* expressions and lists below.                                            *)
(***************************************************************************)
NoBound == -1

Kinds == {"string", "number", "boolean", "email", "url", "date", "cpf", "cnpj",
          "cep", "phone", "isbn", "uuid", "json", "base64", "password"}

Rule(type, required, min, max, pattern, custom, message, transform, enum) ==
  [type |-> type, required |-> required, min |-> min, max |-> max,
   pattern |-> pattern, custom |-> custom, message |-> message,
   transform |-> transform, enum |-> enum]

\* outcome of calling a function: a returned boolean, or a raised exception
Returned(b) == IF b THEN "true" ELSE "false"
TypeError == "TypeError"
CustomError == "Error"

(***************************************************************************)
(* Type checkers                                                           *)
(***************************************************************************)
RECURSIVE SumOver(_, _)
\* f[1] + ... + f[n]
SumOver(f, n) == IF n = 0 THEN 0 ELSE SumOver(f, n - 1) + f[n]

\* parseInt of one character: NaN (here -1) unless it is a digit
ParseIntChar(c) == IF IsDigit(c) THEN DigitValue(c) ELSE -1

validateString(value, rule) ==
  IF TypeOf(value) # "string" THEN Returned(FALSE)
  ELSE LET str == Trim(value.s)
       IN  IF rule.min # NoBound /\ Len(str) < rule.min THEN Returned(FALSE)
           ELSE IF rule.max # NoBound /\ Len(str) > rule.max THEN Returned(FALSE)
           ELSE Returned(TRUE)

validateNumber(value, rule) ==
  LET num == ToNumber(value)
  IN  IF num = NaN THEN Returned(FALSE)
      ELSE IF rule.min # NoBound /\ num.n < rule.min THEN Returned(FALSE)
      ELSE IF rule.max # NoBound /\ num.n > rule.max THEN Returned(FALSE)
      ELSE Returned(TRUE)

validateBoolean(value) ==
  Returned(\/ TypeOf(value) = "boolean"
           \/ value = Str(<<"t", "r", "u", "e">>)
           \/ value = Str(<<"f", "a", "l", "s", "e">>)
           \/ value = Str(<<"1">>)
           \/ value = Str(<<"0">>)
           \/ value = Num(1)
           \/ value = Num(0))

\* /^[^\s@]+@[^\s@]+\.[^\s@]+$/
EmailRegexTest(s) ==
  \E i, j \in DOMAIN s :
    /\ 1 < i /\ i + 1 < j /\ j < Len(s)
    /\ s[i] = "@" /\ s[j] = "."
    /\ \A k \in DOMAIN s : k # i => ~IsSpace(s[k]) /\ s[k] # "@"

validateEmail(value) == Returned(EmailRegexTest(ToLowerCase(StringOf(value))))

SpecialSchemes == {<<"h", "t", "t", "p">>, <<"h", "t", "t", "p", "s">>,
                   <<"f", "t", "p">>, <<"w", "s">>, <<"w", "s", "s">>,
                   <<"f", "i", "l", "e">>}

\* new URL(s) without a base: s needs a scheme, and after a special scheme
\* something that can be a host
URLParses(s) ==
  LET str == Trim(s)
  IN  \E i \in DOMAIN str :
        /\ str[i] = ":"
        /\ i > 1 /\ IsLetter(str[1])
        /\ \A k \in 1..(i - 1) : IsLetter(str[k]) \/ IsDigit(str[k]) \/ str[k] \in {"+", "-", "."}
        /\ ToLowerCase(SubSeq(str, 1, i - 1)) \in (SpecialSchemes \ {<<"f", "i", "l", "e">>})
             => \E k \in (i + 1)..Len(str) : str[k] \notin {"/", "\\"}

validateUrl(value) == Returned(URLParses(StringOf(value)))

\* Date.parse of the date-only forms YYYY, YYYY-MM and YYYY-MM-DD; any other
\* string of the model is not a date
DateParses(s) ==
  LET two(i) == DecimalValue(SubSeq(s, i, i + 1))
  IN  /\ Len(s) \in {4, 7, 10}
      /\ \A i \in DOMAIN s : IF i \in {5, 8} THEN s[i] = "-" ELSE IsDigit(s[i])
      /\ Len(s) >= 7 => two(6) \in 1..12
      /\ Len(s) = 10 => two(9) \in 1..31

validateDate(value) ==
  Returned(CASE value.t \in {"number", "boolean", "null"} -> TRUE
             [] value.t \in {"NaN", "undefined"} -> FALSE
             [] OTHER -> DateParses(StringOf(value)))

\* the test for a run of one digit left out
AllSameDigitNever(s) == FALSE

\* /^(\d)\1+$/
AllSameDigit(s) == Len(s) >= 2 /\ \A i \in DOMAIN s : IsDigit(s[i]) /\ s[i] = s[1]

\* remainder < 2 ? 0 : 11 - remainder
CheckDigit(sum) == LET remainder == sum % 11 IN IF remainder < 2 THEN 0 ELSE 11 - remainder

\* the second check digit not compared
CPFCheckFirstDigitOnly(cpf) ==
  IF Len(cpf) # 11 THEN FALSE
  ELSE IF AllSameDigit(cpf) THEN FALSE
  ELSE DigitValue(cpf[10]) =
         CheckDigit(SumOver([i \in 1..9 |-> DigitValue(cpf[i]) * (11 - i)], 9))

CPFCheck(cpf) ==
  IF Len(cpf) # 11 THEN FALSE
  ELSE IF AllSameDigit(cpf) THEN FALSE
  ELSE LET digit1 == CheckDigit(SumOver([i \in 1..9 |-> DigitValue(cpf[i]) * (11 - i)], 9))
           digit2 == CheckDigit(SumOver([i \in 1..10 |-> DigitValue(cpf[i]) * (12 - i)], 10))
       IN  IF DigitValue(cpf[10]) # digit1 THEN FALSE
           ELSE DigitValue(cpf[11]) = digit2

validateCPF(value) ==
  IF TypeOf(value) # "string" THEN TypeError
  ELSE Returned(CPFCheck(Filter(value.s, IsDigit)))

weights1 == <<5, 4, 3, 2, 9, 8, 7, 6, 5, 4, 3, 2>>
weights2 == <<6, 5, 4, 3, 2, 9, 8, 7, 6, 5, 4, 3, 2>>

\* the second check digit not compared
CNPJCheckFirstDigitOnly(cnpj) ==
  IF Len(cnpj) # 14 THEN FALSE
  ELSE IF AllSameDigit(cnpj) THEN FALSE
  ELSE DigitValue(cnpj[13]) =
         CheckDigit(SumOver([i \in 1..12 |-> DigitValue(cnpj[i]) * weights1[i]], 12))

CNPJCheck(cnpj) ==
  IF Len(cnpj) # 14 THEN FALSE
  ELSE IF AllSameDigit(cnpj) THEN FALSE
  ELSE LET digit1 == CheckDigit(SumOver([i \in 1..12 |-> DigitValue(cnpj[i]) * weights1[i]], 12))
           digit2 == CheckDigit(SumOver([i \in 1..13 |-> DigitValue(cnpj[i]) * weights2[i]], 13))
       IN  IF DigitValue(cnpj[13]) # digit1 THEN FALSE
           ELSE DigitValue(cnpj[14]) = digit2

validateCNPJ(value) ==
  IF TypeOf(value) # "string" THEN TypeError
  ELSE Returned(CNPJCheck(Filter(value.s, IsDigit)))

validateCEP(value) ==
  IF TypeOf(value) # "string" THEN TypeError
  ELSE Returned(Len(Filter(value.s, IsDigit)) = 8)

validatePhone(value) ==
  IF TypeOf(value) # "string" THEN TypeError
  ELSE LET phone == Filter(value.s, IsDigit)
       IN  Returned(Len(phone) >= 10 /\ Len(phone) <= 11)

\* the last character left out of the sum
validateISBN10IgnoringLast(isbn) ==
  IF \E i \in 1..9 : ParseIntChar(isbn[i]) = -1 THEN FALSE
  ELSE SumOver([i \in 1..9 |-> ParseIntChar(isbn[i]) * (11 - i)], 9) % 11 = 0

validateISBN10(isbn) ==
  IF \E i \in 1..9 : ParseIntChar(isbn[i]) = -1 THEN FALSE
  ELSE LET sum == SumOver([i \in 1..9 |-> ParseIntChar(isbn[i]) * (11 - i)], 9)
           lastChar == ToUpperChar(isbn[10])
           lastDigit == IF lastChar = "X" THEN 10 ELSE ParseIntChar(lastChar)
       IN  IF lastDigit = -1 THEN FALSE
           ELSE (sum + lastDigit) % 11 = 0

\* the loop stopped before the last digit
validateISBN13TwelveOnly(isbn) ==
  IF \E i \in 1..12 : ParseIntChar(isbn[i]) = -1 THEN FALSE
  ELSE SumOver([i \in 1..12 |->
                  ParseIntChar(isbn[i]) * (IF (i - 1) % 2 = 0 THEN 1 ELSE 3)], 12) % 10 = 0

validateISBN13(isbn) ==
  IF \E i \in 1..13 : ParseIntChar(isbn[i]) = -1 THEN FALSE
  ELSE SumOver([i \in 1..13 |->
                  ParseIntChar(isbn[i]) * (IF (i - 1) % 2 = 0 THEN 1 ELSE 3)], 13) % 10 = 0

NotHyphenOrSpace(c) == c # "-" /\ ~IsSpace(c)

\* the last character of an ISBN-10 compared with X without toUpperCase
ISBNCheckCaseSensitive(s) ==
  LET isbn == Filter(s, NotHyphenOrSpace)
  IN  IF Len(isbn) = 10 THEN validateISBN10(isbn) /\ isbn[10] # "x"
      ELSE IF Len(isbn) = 13 THEN validateISBN13(isbn)
      ELSE FALSE

ISBNCheck(s) ==
  LET isbn == Filter(s, NotHyphenOrSpace)
  IN  IF Len(isbn) = 10 THEN validateISBN10(isbn)
      ELSE IF Len(isbn) = 13 THEN validateISBN13(isbn)
      ELSE FALSE

validateISBN(value) ==
  IF TypeOf(value) # "string" THEN TypeError
  ELSE Returned(ISBNCheck(value.s))

IsHex(c) == IsDigit(c) \/ ToLowerChar(c) \in {"a", "b", "c", "d", "e", "f"}

\* /^[0-9a-f]{8}-[0-9a-f]{4}-[1-5][0-9a-f]{3}-[89ab][0-9a-f]{3}-[0-9a-f]{12}$/i
UUIDRegexTest(s) ==
  /\ Len(s) = 36
  /\ \A i \in DOMAIN s :
       CASE i \in {9, 14, 19, 24} -> s[i] = "-"
         [] i = 15 -> s[i] \in {"1", "2", "3", "4", "5"}
         [] i = 20 -> ToLowerChar(s[i]) \in {"8", "9", "a", "b"}
         [] OTHER -> IsHex(s[i])

validateUUID(value) == Returned(UUIDRegexTest(StringOf(value)))

\* a JSON number without exponent: -? (0 | [1-9][0-9]*) (. [0-9]+)?
JSONNumber(s) ==
  LET u == IF s # <<>> /\ Head(s) = "-" THEN Tail(s) ELSE s
      int == DigitPrefix(u)
      rest == SubSeq(u, Len(int) + 1, Len(u))
  IN  /\ int # <<>>
      /\ Len(int) > 1 => int[1] # "0"
      /\ \/ rest = <<>>
         \/ rest[1] = "." /\ Len(rest) > 1 /\ AllChars(Tail(rest), IsDigit)

\* JSON.parse(s) succeeds; the strings of the model hold no quote, bracket or
\* brace, so a text that parses is a number or one of the three literals
JSONParses(s) ==
  LET str == Trim(s)
  IN  \/ JSONNumber(str)
      \/ str \in {<<"t", "r", "u", "e">>, <<"f", "a", "l", "s", "e">>, <<"n", "u", "l", "l">>}

validateJSON(value) ==
  IF TypeOf(value) = "object" THEN Returned(TRUE)
  ELSE Returned(JSONParses(StringOf(value)))

IsBase64Char(c) == IsLetter(c) \/ IsDigit(c) \/ c \in {"+", "/"}

\* btoa(atob(s)) === s for a string without "=" padding: every character is
\* of the alphabet and the length is a multiple of four
Base64RoundTrips(s) == AllChars(s, IsBase64Char) /\ Len(s) % 4 = 0

validateBase64(value) ==
  IF TypeOf(value) # "string" THEN Returned(FALSE)
  ELSE Returned(Base64RoundTrips(value.s))

PasswordSymbols == {"!", "@", "#", "$", "%", "^", "&", "*", "(", ")", ",", ".",
                    "?", "\"", ":", "{", "}", "|", "<", ">"}

DefaultMinLength == 8

validatePassword(value, rule) ==
  IF TypeOf(value) # "string" THEN Returned(FALSE)
  ELSE LET minLength == IF rule.min = NoBound \/ rule.min = 0
                        THEN DefaultMinLength ELSE rule.min
       IN  IF Len(value.s) < minLength THEN Returned(FALSE)
           ELSE IF ~\E i \in DOMAIN value.s : IsUpper(value.s[i]) THEN Returned(FALSE)
           ELSE IF ~\E i \in DOMAIN value.s : IsLower(value.s[i]) THEN Returned(FALSE)
           ELSE IF ~\E i \in DOMAIN value.s : IsDigit(value.s[i]) THEN Returned(FALSE)
           ELSE IF ~\E i \in DOMAIN value.s : value.s[i] \in PasswordSymbols
                THEN Returned(FALSE)
           ELSE Returned(TRUE)

\* the switch on rule.type of checkRule: the checker's outcome
TypeCheck(value, rule) ==
  CASE rule.type = "string" -> validateString(value, rule)
    [] rule.type = "number" -> validateNumber(value, rule)
    [] rule.type = "boolean" -> validateBoolean(value)
    [] rule.type = "email" -> validateEmail(value)
    [] rule.type = "url" -> validateUrl(value)
    [] rule.type = "date" -> validateDate(value)
    [] rule.type = "cpf" -> validateCPF(value)
    [] rule.type = "cnpj" -> validateCNPJ(value)
    [] rule.type = "cep" -> validateCEP(value)
    [] rule.type = "phone" -> validatePhone(value)
    [] rule.type = "isbn" -> validateISBN(value)
    [] rule.type = "uuid" -> validateUUID(value)
    [] rule.type = "json" -> validateJSON(value)
    [] rule.type = "base64" -> validateBase64(value)
    [] rule.type = "password" -> validatePassword(value, rule)

\* a switch that sets a code of its own for string, number and boolean too
TypeErrorCodePerKind(type) ==
  CASE type = "string" -> "INVALID_STRING"
    [] type = "number" -> "INVALID_NUMBER"
    [] type = "boolean" -> "INVALID_BOOLEAN"
    [] OTHER -> "VALIDATION_FAILED"

\* the errorCode the switch sets for the kind
TypeErrorCode(type) ==
  CASE type \in {"string", "number", "boolean"} -> "VALIDATION_FAILED"
    [] type = "email" -> "INVALID_EMAIL"
    [] type = "url" -> "INVALID_URL"
    [] type = "date" -> "INVALID_DATE"
    [] type = "cpf" -> "INVALID_CPF"
    [] type = "cnpj" -> "INVALID_CNPJ"
    [] type = "cep" -> "INVALID_CEP"
    [] type = "phone" -> "INVALID_PHONE"
    [] type = "isbn" -> "INVALID_ISBN"
    [] type = "uuid" -> "INVALID_UUID"
    [] type = "json" -> "INVALID_JSON"
    [] type = "base64" -> "INVALID_BASE64"
    [] type = "password" -> "WEAK_PASSWORD"

(***************************************************************************)
(* Rule members supplied by the caller                                     *)
(***************************************************************************)
\* transform: (value) => parseInt(value) || 1, (value) => value?.toUpperCase()
ApplyTransform(transform, value) ==
  CASE transform = "parseIntOr1" ->
         LET p == ParseInt(value)
         IN  [raised |-> "none", value |-> IF p = NaN \/ p = Num(0) THEN Num(1) ELSE p]
    [] transform = "toUpperCase" ->
         IF value.t \in {"undefined", "null"} THEN [raised |-> "none", value |-> Undefined]
         ELSE IF TypeOf(value) = "string"
              THEN [raised |-> "none", value |-> Str(ToUpperCase(value.s))]
         ELSE [raised |-> TypeError, value |-> Undefined]
    [] OTHER -> [raised |-> "none", value |-> value]

\* custom: a predicate of the caller that accepts, rejects or raises
CustomCall(custom, value) ==
  CASE custom = "accepts" -> Returned(TRUE)
    [] custom = "rejects" -> Returned(FALSE)
    [] OTHER -> CustomError

\* enum: ['ASC', 'DESC', 'asc', 'desc']
EnumValues(enum) ==
  IF enum = "ordem"
  THEN {Str(<<"A", "S", "C">>), Str(<<"D", "E", "S", "C">>),
        Str(<<"a", "s", "c">>), Str(<<"d", "e", "s", "c">>)}
  ELSE {}

\* [a-zA-Z0-9\s\-_,.:;!?'"()] of the pattern of livro.titulo
IsTituloChar(c) ==
  \/ IsLetter(c) \/ IsDigit(c) \/ IsSpace(c)
  \/ c \in {"-", "_", ",", ".", ":", ";", "!", "?", "'", "\"", "(", ")"}

\* [a-zA-Z\s.] of the pattern of livro.autor
IsAutorChar(c) == IsLetter(c) \/ IsSpace(c) \/ c = "."

\* pattern: /^[0-9]+[a-zA-Z]?$/ and /^[A-Z]{2}$/, and the patterns of
\* livro.titulo and livro.autor (the strings of the model hold no accented
\* letter)
PatternTest(pattern, s) ==
  CASE pattern = "numero" ->
         LET body == IF s # <<>> /\ IsLetter(s[Len(s)]) THEN SubSeq(s, 1, Len(s) - 1) ELSE s
         IN  body # <<>> /\ AllChars(body, IsDigit)
    [] pattern = "estado" -> Len(s) = 2 /\ AllChars(s, IsUpper)
    [] pattern = "titulo" -> s # <<>> /\ AllChars(s, IsTituloChar)
    [] pattern = "autor" -> s # <<>> /\ AllChars(s, IsAutorChar)
    [] OTHER -> TRUE

(***************************************************************************)
(* Validator.checkRule                                                     *)
(***************************************************************************)
NoError == [field |-> "", message |-> "", value |-> Undefined, code |-> ""]

ErrorItem(field, message, value, code) ==
  [field |-> field, message |-> message, value |-> value, code |-> code]

\* rule.message || <default>
MessageOr(rule, default) == IF rule.message # "none" THEN rule.message ELSE default

TypeMessage(type) ==
  CASE type = "string" -> "deve ser uma string valida"
    [] type = "number" -> "deve ser um numero valido"
    [] type = "boolean" -> "deve ser verdadeiro ou falso"
    [] type = "email" -> "deve ser um email valido"
    [] type = "url" -> "deve ser uma URL valida"
    [] type = "date" -> "deve ser uma data valida"
    [] type = "cpf" -> "deve ser um CPF valido"
    [] type = "cnpj" -> "deve ser um CNPJ valido"
    [] type = "cep" -> "deve ser um CEP valido"
    [] type = "phone" -> "deve ser um telefone valido"
    [] type = "isbn" -> "deve ser um ISBN valido"
    [] type = "uuid" -> "deve ser um UUID valido"
    [] type = "json" -> "deve ser um JSON valido"
    [] type = "base64" -> "deve ser uma string base64 valida"
    [] type = "password" -> "deve ser uma senha forte"

\* what one call of checkRule gives back: the error item (NoError for null),
\* the sanitized data it leaves, the rule members it invoked, in order, and
\* the exception it raised ("none" when it returned)
Outcome(error, sd, calls, raised) ==
  [error |-> error, sanitizedData |-> sd, calls |-> calls, raised |-> raised]

\* the required check without the test for the empty string
RequiredFailsOnlyNullish(rule, value) ==
  rule.required /\ (value = Undefined \/ value = Null)

\* rule.required && (value === undefined || value === null || value === '')
RequiredFails(rule, value) == rule.required /\ IsEmptyValue(value)

\* the short circuit for undefined and null only
EmptyPassesOnlyNullish(rule, value) ==
  ~rule.required /\ (value = Undefined \/ value = Null)

\* !rule.required && (value === undefined || value === null || value === '')
EmptyPasses(rule, value) == ~rule.required /\ IsEmptyValue(value)

\* the assignment replaced by a new object holding the one field
RecordTransformAlone(sd, field, rule, transformedValue) ==
  IF rule.transform # "none" THEN [f \in {field} |-> transformedValue] ELSE sd

\* the assignment left out
RecordTransformSkipped(sd, field, rule, transformedValue) == sd

\* this.sanitizedData[field] = transformedValue
RecordTransform(sd, field, rule, transformedValue) ==
  IF rule.transform # "none"
  THEN [f \in DOMAIN sd \cup {field} |-> IF f = field THEN transformedValue ELSE sd[f]]
  ELSE sd

\* the verdict after the type switch
AfterType(field, rule, typeResult) ==
  [isValid |-> typeResult = Returned(TRUE),
   errorMessage |-> MessageOr(rule, TypeMessage(rule.type)),
   errorCode |-> TypeErrorCode(rule.type)]

\* if (rule.custom && !rule.custom(transformedValue)) { ... }
AfterCustom(v, rule, customResult) ==
  IF rule.custom # "none" /\ customResult = Returned(FALSE)
  THEN [isValid |-> FALSE,
        errorMessage |-> MessageOr(rule, "nao passou na validacao customizada"),
        errorCode |-> "CUSTOM_VALIDATION_FAILED"]
  ELSE v

\* if (rule.enum && !rule.enum.includes(transformedValue)) { ... }
AfterEnum(v, rule, transformedValue) ==
  IF rule.enum # "none" /\ transformedValue \notin EnumValues(rule.enum)
  THEN [isValid |-> FALSE,
        errorMessage |-> MessageOr(rule, "deve ser um dos valores"),
        errorCode |-> "INVALID_ENUM_VALUE"]
  ELSE v

\* if (rule.pattern && !rule.pattern.test(String(transformedValue))) { ... }
AfterPattern(v, rule, transformedValue) ==
  IF rule.pattern # "none" /\ ~PatternTest(rule.pattern, StringOf(transformedValue))
  THEN [isValid |-> FALSE,
        errorMessage |-> MessageOr(rule, "nao corresponde ao padrao esperado"),
        errorCode |-> "PATTERN_MISMATCH"]
  ELSE v

\* the rule members checkRule invokes after the transform when none raises
StepsInvoked(rule) ==
  <<"checker">>
  \o (IF rule.custom # "none" THEN <<"custom">> ELSE <<>>)
  \o (IF rule.enum # "none" THEN <<"enum">> ELSE <<>>)
  \o (IF rule.pattern # "none" THEN <<"pattern">> ELSE <<>>)

checkRule(field, value, rule, sd) ==
  IF RequiredFails(rule, value)
  THEN Outcome(ErrorItem(field, MessageOr(rule, "e obrigatorio"), value, "REQUIRED"),
               sd, <<>>, "none")
  ELSE IF EmptyPasses(rule, value) THEN Outcome(NoError, sd, <<>>, "none")
  ELSE
    LET tr == ApplyTransform(rule.transform, value)
        tcalls == IF rule.transform # "none" THEN <<"transform">> ELSE <<>>
    IN  IF tr.raised # "none" THEN Outcome(NoError, sd, tcalls, tr.raised)
        ELSE
          LET transformedValue == tr.value
              sd2 == RecordTransform(sd, field, rule, transformedValue)
              typeResult == TypeCheck(transformedValue, rule)
              customResult == IF rule.custom # "none"
                              THEN CustomCall(rule.custom, transformedValue)
                              ELSE Returned(TRUE)
              v == AfterPattern(
                     AfterEnum(
                       AfterCustom(AfterType(field, rule, typeResult), rule, customResult),
                       rule, transformedValue),
                     rule, transformedValue)
          IN  IF typeResult = TypeError
              THEN Outcome(NoError, sd2, tcalls \o <<"checker">>, TypeError)
              ELSE IF customResult = CustomError
              THEN Outcome(NoError, sd2, tcalls \o <<"checker", "custom">>, CustomError)
              ELSE IF ~v.isValid
              THEN Outcome(ErrorItem(field, v.errorMessage, transformedValue, v.errorCode),
                           sd2, tcalls \o StepsInvoked(rule), "none")
              ELSE Outcome(NoError, sd2, tcalls \o StepsInvoked(rule), "none")

(***************************************************************************)
(* Validator: validateField, validateFields, custom, getResult,            *)
(* throwIfInvalid.  A run of a method is a record of the error list and    *)
(* sanitized data it leaves, the rule members it invoked and the exception *)
(* that left it ("none" when it returned).                                 *)
(***************************************************************************)
\* F applied to the value of v
Let(v, F(_)) == CHOOSE y \in {F(x) : x \in {v}} : TRUE

\* this.data[field]
Get(obj, field) == IF field \in DOMAIN obj THEN obj[field] ELSE Undefined

\* this.sanitizedData = { ...data }
Validator(input) == [f \in DOMAIN input |-> input[f]]

Run(errs, sd, calls, raised) ==
  [errors |-> errs, sanitizedData |-> sd, calls |-> calls, raised |-> raised]

Invoked(field, i, steps) ==
  [k \in 1..Len(steps) |-> [field |-> field, rule |-> i, step |-> steps[k]]]

\* the iteration without the break after the push
ruleStepNoBreak(field, i, run, o) ==
  IF o.raised # "none"
  THEN [done |-> TRUE,
        run |-> Run(run.errors, o.sanitizedData, run.calls \o Invoked(field, i, o.calls),
                    o.raised)]
  ELSE [done |-> FALSE,
        run |-> Run(IF o.error # NoError THEN Append(run.errors, o.error) ELSE run.errors,
                    o.sanitizedData, run.calls \o Invoked(field, i, o.calls), "none")]

\* the iteration with an assignment of a new list in place of the push
ruleStepReplacing(field, i, run, o) ==
  IF o.raised # "none"
  THEN [done |-> TRUE,
        run |-> Run(run.errors, o.sanitizedData, run.calls \o Invoked(field, i, o.calls),
                    o.raised)]
  ELSE IF o.error # NoError
  THEN [done |-> TRUE,
        run |-> Run(<<o.error>>, o.sanitizedData,
                    run.calls \o Invoked(field, i, o.calls), "none")]
  ELSE [done |-> FALSE,
        run |-> Run(run.errors, o.sanitizedData, run.calls \o Invoked(field, i, o.calls),
                    "none")]

\* one iteration of the loop of validateField over a run: checkRule, then the
\* push of its error; "done" says the loop ends here (break, or an exception)
ruleStep(field, i, run, o) ==
  IF o.raised # "none"
  THEN [done |-> TRUE,
        run |-> Run(run.errors, o.sanitizedData, run.calls \o Invoked(field, i, o.calls),
                    o.raised)]
  ELSE IF o.error # NoError
  THEN [done |-> TRUE,
        run |-> Run(Append(run.errors, o.error), o.sanitizedData,
                    run.calls \o Invoked(field, i, o.calls), "none")]
  ELSE [done |-> FALSE,
        run |-> Run(run.errors, o.sanitizedData, run.calls \o Invoked(field, i, o.calls),
                    "none")]

RECURSIVE ruleLoopChaining(_, _, _, _, _)
\* the loop that hands each rule the value the rule before it recorded
ruleLoopChaining(field, value, ruleList, i, run) ==
  IF i > Len(ruleList) THEN run
  ELSE Let(ruleStep(field, i, run, checkRule(field, value, ruleList[i], run.sanitizedData)),
           LAMBDA s : IF s.done THEN s.run
                      ELSE ruleLoopChaining(field, Get(s.run.sanitizedData, field),
                                            ruleList, i + 1, s.run))

RECURSIVE ruleLoop(_, _, _, _, _)
\* for (const rule of ruleList) { ... if (error) { push; break } }
ruleLoop(field, value, ruleList, i, run) ==
  IF i > Len(ruleList) THEN run
  ELSE Let(ruleStep(field, i, run, checkRule(field, value, ruleList[i], run.sanitizedData)),
           LAMBDA s : IF s.done THEN s.run
                      ELSE ruleLoop(field, value, ruleList, i + 1, s.run))

validateField(input, field, rules, run) ==
  ruleLoop(field, Get(input, field), rules, 1, run)

RECURSIVE fieldLoop(_, _, _, _)
\* Object.entries(fields).forEach(([field, rules]) => this.validateField(field, rules))
fieldLoop(input, fields, i, run) ==
  IF i > Len(fields) THEN run
  ELSE Let(validateField(input, fields[i].field, fields[i].rules, run),
           LAMBDA r : IF r.raised # "none" THEN r
                      ELSE fieldLoop(input, fields, i + 1, r))

validateFields(input, fields, run) == fieldLoop(input, fields, 1, run)

\* a cross-field validator of the caller: returns null or an error item
CrossFieldError == ErrorItem("periodo", "periodo invalido", Undefined, "INVALID_RANGE")
CrossFieldCall(validator, input) ==
  IF validator = "returnsError" THEN CrossFieldError ELSE NoError

custom(validator, input, run) ==
  LET error == CrossFieldCall(validator, input)
  IN  IF error # NoError
      THEN Run(Append(run.errors, error), run.sanitizedData, <<>>, "none")
      ELSE Run(run.errors, run.sanitizedData, <<>>, "none")

\* isValid taken from the list before its last push
getResultStale(errs) ==
  [taken |-> TRUE, isValid |-> Len(errs) <= 1,
   errors |-> "this.errors", sanitizedData |-> "this.sanitizedData"]

\* isValid is computed when getResult is called; errors and sanitizedData of
\* the result are references to the validator's own list and object, not
\* copies of them
getResult(errs) ==
  [taken |-> TRUE, isValid |-> Len(errs) = 0,
   errors |-> "this.errors", sanitizedData |-> "this.sanitizedData"]

\* the result before any getResult
NoResult == [taken |-> FALSE, isValid |-> FALSE, errors |-> "none", sanitizedData |-> "none"]

(***************************************************************************)
(* ValidationError                                                         *)
(***************************************************************************)
DefaultStatusCode == 400

NoException == [name |-> "none", message |-> "", errors |-> <<>>, statusCode |-> 0]

Exception(name) == [name |-> name, message |-> "", errors |-> <<>>, statusCode |-> 0]

\* new ValidationError(message, errors, statusCode = 400)
ValidationError(message, errs, statusCode) ==
  [name |-> "ValidationError", message |-> message, errors |-> errs,
   statusCode |-> statusCode]

\* throwIfInvalid(message = 'Erro de validacao')
throwIfInvalid(message, errs) ==
  LET res == getResult(errs)
  IN  IF ~res.isValid THEN ValidationError(message, errs, DefaultStatusCode)
      ELSE NoException

(***************************************************************************)
(* Inputs: the mapping given to new Validator(data) and the schema whose   *)
(* entries are validated, in the iteration order of Object.entries         *)
(***************************************************************************)
MaxErrors == 2

Entry(field, rules) == [field |-> field, rules |-> rules]

\* the values of field "a": one of each shape, and the two empty values a
\* present field can hold
ValuesA ==
  {Null, Str(<<>>),
   Str(<<"a", "s", "c">>),
   Str(<<"0", "3", "0", "6", "4", "0", "6", "1", "5", "2">>),
   Num(42), Bool(TRUE), ArrayOf(<<"x">>), PlainObject}

ValuesB == {Str(<<"a", "s", "c">>)}

Inputs ==
  {[f \in ({"c"} \cup (IF pa THEN {"a"} ELSE {}) \cup (IF pb THEN {"b"} ELSE {})) |->
      CASE f = "a" -> va [] f = "b" -> vb [] OTHER -> Num(7)] :
     pa \in BOOLEAN, pb \in BOOLEAN, va \in ValuesA, vb \in ValuesB}

\* every kind, with no optional member
KindRules ==
  {Rule(k, req, NoBound, NoBound, "none", "none", "none", "none", "none") :
     k \in Kinds, req \in BOOLEAN}

\* every combination of the optional members, for two kinds
StepRules ==
  {Rule(k, req, NoBound, NoBound, p, c, "none", tr, e) :
     k \in {"isbn", "string"}, req \in BOOLEAN, p \in {"none", "numero"},
     c \in {"none", "accepts", "rejects", "raises"},
     tr \in {"none", "toUpperCase", "parseIntOr1"}, e \in {"none", "ordem"}}

\* the members of a list of rules
ListRules ==
  {Rule("string", FALSE, 2, 5, "none", "none", "msg", "toUpperCase", "none"),
   Rule("isbn", TRUE, NoBound, NoBound, "none", "accepts", "none", "none", "none"),
   Rule("number", FALSE, 1, 100, "none", "none", "none", "parseIntOr1", "none")}

RulesA ==
  {<<r>> : r \in KindRules \cup StepRules} \cup {<<r, q>> : r \in ListRules, q \in ListRules}

\* titulo of ValidationSchemas.livro, without its pattern
RuleB == Rule("string", TRUE, 2, 200, "none", "none", "none", "none", "none")

Schemas == {<<Entry("a", ra), Entry("b", <<RuleB>>)>> : ra \in RulesA}

CrossFieldValidators == {"returnsNull", "returnsError"}

Init ==
  /\ data \in Inputs
  /\ schema \in Schemas
  /\ errors = <<>>
  /\ sanitizedData = Validator(data)
  /\ last = [op |-> "new", field |-> "", errs0 |-> 0, calls |-> <<>>]
  /\ result = NoResult
  /\ thrown = NoException

Raised(run) == IF run.raised = "none" THEN NoException ELSE Exception(run.raised)

ValidateField(i) ==
  /\ Len(errors) < MaxErrors
  /\ \E r \in {validateField(data, schema[i].field, schema[i].rules,
                             Run(errors, sanitizedData, <<>>, "none"))} :
         /\ errors' = r.errors
         /\ sanitizedData' = r.sanitizedData
         /\ last' = [op |-> "validateField", field |-> schema[i].field,
                     errs0 |-> Len(errors), calls |-> r.calls]
         /\ thrown' = Raised(r)
  /\ UNCHANGED <<data, schema, result>>

ValidateFields ==
  /\ Len(errors) + Len(schema) <= MaxErrors
  /\ \E r \in {validateFields(data, schema, Run(errors, sanitizedData, <<>>, "none"))} :
         /\ errors' = r.errors
         /\ sanitizedData' = r.sanitizedData
         /\ last' = [op |-> "validateFields", field |-> "",
                     errs0 |-> Len(errors), calls |-> r.calls]
         /\ thrown' = Raised(r)
  /\ UNCHANGED <<data, schema, result>>

Custom(validator) ==
  /\ Len(errors) < MaxErrors
  /\ \E r \in {custom(validator, data, Run(errors, sanitizedData, <<>>, "none"))} :
         /\ errors' = r.errors
         /\ sanitizedData' = r.sanitizedData
         /\ last' = [op |-> "custom", field |-> "", errs0 |-> Len(errors), calls |-> <<>>]
         /\ thrown' = Raised(r)
  /\ UNCHANGED <<data, schema, result>>

GetResult ==
  /\ result' = getResult(errors)
  /\ last' = [op |-> "getResult", field |-> "", errs0 |-> Len(errors), calls |-> <<>>]
  /\ thrown' = NoException
  /\ UNCHANGED <<data, schema, errors, sanitizedData>>

ThrowIfInvalid ==
  /\ thrown' = throwIfInvalid("Erro de validacao", errors)
  /\ last' = [op |-> "throwIfInvalid", field |-> "", errs0 |-> Len(errors), calls |-> <<>>]
  /\ UNCHANGED <<data, schema, errors, sanitizedData, result>>

Next ==
  \/ \E i \in DOMAIN schema : ValidateField(i)
  \/ ValidateFields
  \/ \E validator \in CrossFieldValidators : Custom(validator)
  \/ GetResult
  \/ ThrowIfInvalid

Spec == Init /\ [][Next]_vars

(***************************************************************************)
(* Properties                                                              *)
(***************************************************************************)
EntryOf(field) == schema[CHOOSE i \in DOMAIN schema : schema[i].field = field]

\* the rules and the raw value of the field the last validateField was about
LastRules == EntryOf(last.field).rules
LastValue == Get(data, last.field)

\* the error items the last call pushed
NewErrors == SubSeq(errors, last.errs0 + 1, Len(errors))

\* the steps (4) to (7) of a rule, in the order checkRule takes them
StepOrder == <<"checker", "custom", "enum", "pattern">>

StepFails(step, rule, v) ==
  CASE step = "checker" -> TypeCheck(v, rule) = Returned(FALSE)
    [] step = "custom" -> rule.custom # "none" /\ CustomCall(rule.custom, v) = Returned(FALSE)
    [] step = "enum" -> rule.enum # "none" /\ v \notin EnumValues(rule.enum)
    [] step = "pattern" -> rule.pattern # "none" /\ ~PatternTest(rule.pattern, StringOf(v))

StepCode(step, rule) ==
  CASE step = "checker" -> TypeErrorCode(rule.type)
    [] step = "custom" -> "CUSTOM_VALIDATION_FAILED"
    [] step = "enum" -> "INVALID_ENUM_VALUE"
    [] step = "pattern" -> "PATTERN_MISMATCH"

FirstFailingStep(rule, v) ==
  StepOrder[CHOOSE i \in DOMAIN StepOrder :
              /\ StepFails(StepOrder[i], rule, v)
              /\ \A j \in 1..(i - 1) : ~StepFails(StepOrder[j], rule, v)]

StepMessage(step, rule) ==
  MessageOr(rule,
            CASE step = "checker" -> TypeMessage(rule.type)
              [] step = "custom" -> "nao passou na validacao customizada"
              [] step = "enum" -> "deve ser um dos valores"
              [] step = "pattern" -> "nao corresponde ao padrao esperado")

\* C1: a validateField with one rule on a non-empty value that reports an
\* error reports the code and the message of the first failing step among
\* type checker, custom predicate, enum and pattern.
C1_FirstFailingStepDecides ==
  (/\ last.op = "validateField"
   /\ Len(LastRules) = 1
   /\ ~IsEmptyValue(LastValue)
   /\ thrown = NoException
   /\ Len(errors) = last.errs0 + 1)
  => LET rule == LastRules[1]
         e == errors[Len(errors)]
         first == FirstFailingStep(rule, e.value)
     IN  /\ e.code = StepCode(first, rule)
         /\ e.message = StepMessage(first, rule)

\* what one rule of the last field does on its own: fail, raise or pass
RuleAlone(i) == checkRule(last.field, LastValue, LastRules[i], sanitizedData)
RuleFails(i) == RuleAlone(i).error # NoError

\* C2: a validateField that returns pushes exactly the one error item of the
\* first failing rule of its list and invokes no member of a later rule, also
\* when an earlier validateField of another field failed; when every rule
\* passes it pushes nothing.
C2_FirstFailingRuleOnly ==
  (last.op = "validateField" /\ thrown = NoException)
  => IF \E i \in DOMAIN LastRules : RuleFails(i)
     THEN LET first == CHOOSE i \in DOMAIN LastRules :
                         RuleFails(i) /\ \A j \in 1..(i - 1) : ~RuleFails(j)
          IN  /\ NewErrors = <<RuleAlone(first).error>>
              /\ \A k \in DOMAIN last.calls : last.calls[k].rule <= first
     ELSE NewErrors = <<>>

\* C2 witness: the first rule of a list of two failed and the second was not
\* evaluated, after a validateField of the other field had failed.
C2_Witness ==
  /\ last.op = "validateField" /\ last.field = "a" /\ thrown = NoException
  /\ Len(LastRules) = 2
  /\ RuleFails(1) /\ RuleFails(2)
  /\ Len(errors) = 2 /\ errors[1].field = "b" /\ errors[2].field = "a"
  /\ last.calls # <<>>

\* C3: a validateField of a field whose value is absent, null or '' under a
\* required rule pushes exactly one error, for that field and with code
\* REQUIRED, and invokes no transform, checker, custom predicate, enum or
\* pattern.
C3_RequiredOnly ==
  (/\ last.op = "validateField"
   /\ IsEmptyValue(LastValue)
   /\ \E i \in DOMAIN LastRules : LastRules[i].required)
  => /\ thrown = NoException
     /\ Len(NewErrors) = 1
     /\ NewErrors[1].field = last.field
     /\ NewErrors[1].code = "REQUIRED"
     /\ last.calls = <<>>

\* C3 witness: '' under a required rule that carries a transform, a custom
\* predicate, an enum and a pattern.
C3_Witness ==
  /\ last.op = "validateField" /\ last.field = "a"
  /\ LastValue = Str(<<>>)
  /\ LastRules[1].required
  /\ LastRules[1].transform # "none" /\ LastRules[1].custom = "raises"
  /\ LastRules[1].enum # "none" /\ LastRules[1].pattern # "none"
  /\ Len(errors) = 1 /\ errors[1].code = "REQUIRED"

\* C4: the result getResult returns has isValid exactly when the error list
\* is empty, whatever validateField, validateFields and custom calls came
\* before.
C4_IsValidIffNoErrors ==
  last.op = "getResult" => (result.taken /\ result.isValid = (Len(errors) = 0))

\* C4 witness: getResult after a custom and a validateField call each pushed
\* an error.
C4_Witness ==
  /\ last.op = "getResult" /\ ~result.isValid
  /\ Len(errors) = 2
  /\ errors[1] = CrossFieldError /\ errors[2].field = "a"

\* the error items validateField pushes for one entry of the schema on its own
ErrorsAlone(entry) ==
  validateField(data, entry.field, entry.rules, Run(<<>>, sanitizedData, <<>>, "none")).errors

RECURSIVE Concat(_)
Concat(seqs) == IF seqs = <<>> THEN <<>> ELSE Head(seqs) \o Concat(Tail(seqs))

\* C5: validateFields leaves one error for every schema field whose rules
\* fail and none for a field whose rules pass, in the order of the schema,
\* whatever happened to the fields before it.
C5_EveryFieldEvaluated ==
  last.op = "validateFields"
  => NewErrors = Concat([i \in DOMAIN schema |-> ErrorsAlone(schema[i])])

\* C6: a custom predicate that raises leaves one error with code
\* CUSTOM_VALIDATION_FAILED for its field and nothing is raised to the caller.
C6_RaisingCustomIsCaught ==
  (/\ last.op \in {"validateField", "validateFields"}
   /\ last.calls # <<>>
   /\ last.calls[Len(last.calls)].step = "custom"
   /\ EntryOf(last.calls[Len(last.calls)].field).rules[last.calls[Len(last.calls)].rule].custom
        = "raises")
  => /\ thrown = NoException
     /\ \E k \in DOMAIN NewErrors :
          /\ NewErrors[k].field = last.calls[Len(last.calls)].field
          /\ NewErrors[k].code = "CUSTOM_VALIDATION_FAILED"

\* C7: a type checker returns true or false for a value of any shape: a call
\* that ends in its type checker raises nothing.
C7_CheckersTotal ==
  (/\ last.op \in {"validateField", "validateFields"}
   /\ last.calls # <<>>
   /\ last.calls[Len(last.calls)].step = "checker")
  => thrown = NoException

\* the fields of the schema none of whose rules carries a transform
HasTransform(field) ==
  \E i \in DOMAIN schema :
    /\ schema[i].field = field
    /\ \E k \in DOMAIN schema[i].rules : schema[i].rules[k].transform # "none"

\* C8: sanitizedData has an entry for every field of the input, and the
\* entry of a field no rule of which carries a transform is the input value,
\* in every state, valid or not.
C8_SanitizedCoversInput ==
  /\ DOMAIN data \subseteq DOMAIN sanitizedData
  /\ \A f \in DOMAIN data : ~HasTransform(f) => sanitizedData[f] = data[f]

\* C8 witness: validateFields left errors, rewrote the entry of "a" through
\* its transform and kept the entry of "c", which the schema does not name.
C8_Witness ==
  /\ last.op = "validateFields" /\ Len(errors) > 0
  /\ "a" \in DOMAIN data /\ sanitizedData["a"] # data["a"]
  /\ sanitizedData["c"] = data["c"]
  /\ "b" \notin DOMAIN data

\* the output of the transform of the one rule of the last field
LastTransform == ApplyTransform(LastRules[1].transform, LastValue)

\* C9: after a validateField with one rule that carries a transform (one
\* that returns), sanitizedData[field] is the output of the transform,
\* whichever step failed, the required check included.
C9_TransformAlwaysRecorded ==
  (/\ last.op = "validateField"
   /\ Len(LastRules) = 1
   /\ LastRules[1].transform # "none"
   /\ LastTransform.raised = "none")
  => Get(sanitizedData, last.field) = LastTransform.value

\* C9 amended: the same when the value is not undefined, null or '': the
\* entry is the output of the transform whether the rule then passes, fails
\* at the type checker, custom predicate, enum or pattern, or raises there;
\* for an empty value the transform is not invoked and the entry stays as the
\* input has it.
C9_TransformRecordedForPresentValue ==
  (/\ last.op = "validateField"
   /\ Len(LastRules) = 1
   /\ LastRules[1].transform # "none"
   /\ LastTransform.raised = "none")
  => IF IsEmptyValue(LastValue)
     THEN /\ last.calls = <<>>
          /\ (last.field \in DOMAIN sanitizedData) = (last.field \in DOMAIN data)
          /\ Get(sanitizedData, last.field) = LastValue
     ELSE /\ last.field \in DOMAIN sanitizedData
          /\ sanitizedData[last.field] = LastTransform.value

\* C9 witness: the rule failed at its pattern and the entry holds the
\* transformed value, which differs from the input.
C9_Witness ==
  /\ last.op = "validateField" /\ last.field = "a"
  /\ Len(LastRules) = 1 /\ LastRules[1].transform = "toUpperCase"
  /\ Len(errors) = 1 /\ errors[1].code = "PATTERN_MISMATCH"
  /\ sanitizedData["a"] = Str(<<"A", "S", "C">>)
  /\ data["a"] = Str(<<"a", "s", "c">>)

UnprocessableEntity == 422

\* C10: throwIfInvalid raises nothing when the error list is empty, and
\* otherwise one ValidationError with the whole error list, in order, and
\* status code 422.
C10_ThrowIfInvalid ==
  last.op = "throwIfInvalid"
  => IF Len(errors) = 0 THEN thrown = NoException
     ELSE /\ thrown.name = "ValidationError"
          /\ thrown.errors = errors
          /\ thrown.statusCode = UnprocessableEntity

\* result.errors and result.sanitizedData of the result a caller holds
ResultErrors == IF result.errors = "this.errors" THEN errors ELSE <<>>
ResultSanitizedData ==
  IF result.sanitizedData = "this.sanitizedData" THEN sanitizedData ELSE <<>>

\* C11: a result obtained from getResult keeps its isValid, its errors and
\* its sanitizedData through every later validateField, validateFields and
\* custom call on the validator, so that a held result never has isValid
\* true together with a non-empty error list.
C11_ResultIsSnapshot ==
  [][(result.taken /\ result' = result)
     => /\ ResultErrors' = ResultErrors
        /\ ResultSanitizedData' = ResultSanitizedData
        /\ ~(result'.isValid /\ Len(ResultErrors') > 0)]_vars

(***************************************************************************)
(* ValidationSchemas.livro, ValidationUtils.validateObject and              *)
(* LivroValidators.  The registry is the sequence of the entries of         *)
(* ValidationSchemas.livro in the order Object.entries gives them; entry i  *)
(* is the rule object at reference i, and reference 0 is an object that     *)
(* the registry does not hold.                                              *)
(***************************************************************************)
\* new Date().getFullYear()
CurrentYear == 2026

LivroSchema ==
  <<Entry("titulo", <<Rule("string", TRUE, 2, 200, "titulo", "none", "Titulo invalido",
                           "none", "none")>>),
    Entry("autor", <<Rule("string", TRUE, 3, 100, "autor", "none", "Autor invalido",
                          "none", "none")>>),
    Entry("isbn", <<Rule("isbn", TRUE, NoBound, NoBound, "none", "none", "ISBN invalido",
                         "none", "none")>>),
    Entry("anoPublicacao", <<Rule("number", TRUE, 0, CurrentYear, "none", "none",
                                  "Ano de publicacao invalido", "none", "none")>>),
    Entry("disponivel", <<Rule("boolean", FALSE, NoBound, NoBound, "none", "none", "none",
                               "none", "none")>>)>>

\* ValidationUtils.validateObject: a new Validator over obj, validateFields,
\* and the run it leaves (getResult is taken from it when nothing raised)
validateObject(obj, fields) ==
  validateFields(obj, fields, Run(<<>>, Validator(obj), <<>>, "none"))

\* LivroValidators.validateLivro
validateLivro(livroData, registry) == validateObject(livroData, registry)

\* Object.keys(livroData): the payloads of the model are built with their
\* keys in this order
KeyOrder == <<"titulo", "autor", "isbn", "anoPublicacao", "disponivel", "editora">>
ObjectKeys(obj) == SelectSeq(KeyOrder, LAMBDA k : k \in DOMAIN obj)

\* ValidationSchemas.livro[key]: the index of the entry, 0 when there is none
Lookup(registry, key) ==
  IF \E i \in DOMAIN registry : registry[i].field = key
  THEN CHOOSE i \in DOMAIN registry : registry[i].field = key
  ELSE 0

\* const rule = ValidationSchemas.livro[key]: the registry's own object
AliasRule(registry, i) == [ref |-> i, rule |-> registry[i].rules[1]]

\* const rule = { ...ValidationSchemas.livro[key] }: a new object
SpreadRule(registry, i) == [ref |-> 0, rule |-> registry[i].rules[1]]

\* the assignment left out
SetRequiredKept(registry, r, required) == [registry |-> registry, rule |-> r.rule]

\* rule.required = false: written to the object rule refers to
SetRequired(registry, r, required) ==
  [registry |-> IF r.ref = 0 THEN registry
                ELSE [registry EXCEPT
                        ![r.ref].rules = <<[@[1] EXCEPT !.required = required]>>],
   rule |-> [r.rule EXCEPT !.required = required]]

RECURSIVE updateLoop(_, _, _, _)
\* Object.keys(livroData).forEach(key => { if (livro[key]) { ... schema[key] = rule } })
updateLoop(keys, k, registry, fields) ==
  IF k > Len(keys) THEN [registry |-> registry, schema |-> fields]
  ELSE IF Lookup(registry, keys[k]) = 0 THEN updateLoop(keys, k + 1, registry, fields)
  ELSE Let(SetRequired(registry, SpreadRule(registry, Lookup(registry, keys[k])), FALSE),
           LAMBDA w : updateLoop(keys, k + 1, w.registry,
                                 Append(fields, Entry(keys[k], <<w.rule>>))))

\* LivroValidators.validateLivroUpdate: the registry it leaves and the run
validateLivroUpdate(livroData, registry) ==
  Let(updateLoop(ObjectKeys(livroData), 1, registry, <<>>),
      LAMBDA u : [registry |-> u.registry, schema |-> u.schema,
                  run |-> validateObject(livroData, u.schema)])

(***************************************************************************)
(* Calls of LivroValidators and ValidationUtils.validateObject over the    *)
(* one registry.  data is the payload of the last call; errors and          *)
(* sanitizedData are those of the Validator the call built; result is what  *)
(* the call returned (NoResult when an exception left it).                  *)
(***************************************************************************)
Absent == [t |-> "absent", s |-> <<>>, n |-> 0]

Payload(titulo, autor, isbn, anoPublicacao, disponivel, editora) ==
  LET members == [titulo |-> titulo, autor |-> autor, isbn |-> isbn,
                  anoPublicacao |-> anoPublicacao, disponivel |-> disponivel,
                  editora |-> editora]
  IN  [f \in {k \in DOMAIN members : members[k] # Absent} |-> members[f]]

Payloads ==
  {Payload(titulo, autor, isbn, anoPublicacao, disponivel, Str(<<"x">>)) :
     titulo \in {Absent, Str(<<>>), Str(<<"D", "o", "m">>), Str(<<"D">>)},
     autor \in {Absent, Str(<<"A", "n", "a">>)},
     isbn \in {Absent, Str(<<"0", "3", "0", "6", "4", "0", "6", "1", "5", "2">>), Num(42)},
     anoPublicacao \in {Absent, Num(CurrentYear + 1)},
     disponivel \in {Absent, Bool(TRUE)}}

\* what the caller of validateObject gets back
Returns(run) == IF run.raised = "none" THEN getResult(run.errors) ELSE NoResult

InitLivro ==
  /\ data = <<>>
  /\ schema = LivroSchema
  /\ errors = <<>>
  /\ sanitizedData = Validator(data)
  /\ last = [op |-> "load", prev |-> "none", calls |-> <<>>]
  /\ result = NoResult
  /\ thrown = NoException

ValidateLivro ==
  \E livroData \in Payloads :
    \E r \in {validateLivro(livroData, schema)} :
      /\ data' = livroData
      /\ errors' = r.errors
      /\ sanitizedData' = r.sanitizedData
      /\ result' = Returns(r)
      /\ thrown' = Raised(r)
      /\ last' = [op |-> "validateLivro", prev |-> last.op, calls |-> r.calls]
      /\ UNCHANGED schema

ValidateLivroUpdate ==
  \E livroData \in Payloads :
    \E u \in {validateLivroUpdate(livroData, schema)} :
      /\ data' = livroData
      /\ schema' = u.registry
      /\ errors' = u.run.errors
      /\ sanitizedData' = u.run.sanitizedData
      /\ result' = Returns(u.run)
      /\ thrown' = Raised(u.run)
      /\ last' = [op |-> "validateLivroUpdate", prev |-> last.op, calls |-> u.run.calls]

\* ValidationUtils.validateObject(obj, { isbn: ValidationSchemas.livro.isbn })
ValidateObject ==
  \E obj \in Payloads :
    \E r \in {validateObject(obj, <<schema[Lookup(schema, "isbn")]>>)} :
      /\ data' = obj
      /\ errors' = r.errors
      /\ sanitizedData' = r.sanitizedData
      /\ result' = Returns(r)
      /\ thrown' = Raised(r)
      /\ last' = [op |-> "validateObject", prev |-> last.op, calls |-> r.calls]
      /\ UNCHANGED schema

NextLivro == ValidateLivro \/ ValidateLivroUpdate \/ ValidateObject

SpecLivro == InitLivro /\ [][NextLivro]_vars

\* the fields of the registry that the payload holds, in the payload's order
PresentEntries ==
  SelectSeq([k \in DOMAIN ObjectKeys(data) |->
               IF Lookup(LivroSchema, ObjectKeys(data)[k]) = 0
               THEN Entry("", <<>>)
               ELSE LivroSchema[Lookup(LivroSchema, ObjectKeys(data)[k])]],
            LAMBDA e : e.field # "")

\* the error of the base rule of an entry with required forced to false
NotRequiredError(e) ==
  checkRule(e.field, data[e.field], [e.rules[1] EXCEPT !.required = FALSE],
            Validator(data)).error

\* C12: validateLivroUpdate never reports REQUIRED; it evaluates no field
\* that the payload does not hold, and it checks each field the payload
\* holds with the base rule of the registry with required forced to false.
C12_UpdateNeverRequired ==
  last.op = "validateLivroUpdate"
  => /\ \A k \in DOMAIN errors : errors[k].code # "REQUIRED"
     /\ \A k \in DOMAIN errors : errors[k].field \in DOMAIN data
     /\ \A k \in DOMAIN last.calls : last.calls[k].field \in DOMAIN data
     /\ thrown = NoException
        => /\ result.taken
           /\ errors = SelectSeq([k \in DOMAIN PresentEntries |->
                                    NotRequiredError(PresentEntries[k])],
                                 LAMBDA e : e # NoError)

\* C12 witness: an update whose payload holds an empty titulo and no autor,
\* both required by the registry, and an invalid anoPublicacao: the only
\* error is that of anoPublicacao.
C12_Witness ==
  /\ last.op = "validateLivroUpdate"
  /\ "titulo" \in DOMAIN data /\ data["titulo"] = Str(<<>>)
  /\ "autor" \notin DOMAIN data
  /\ result.taken /\ ~result.isValid
  /\ Len(errors) = 1 /\ errors[1].field = "anoPublicacao"
  /\ errors[1].code = "VALIDATION_FAILED"

\* the required fields of the registry that the payload lacks
MissingRequired ==
  SelectSeq(LivroSchema, LAMBDA e : e.rules[1].required /\ IsEmptyValue(Get(data, e.field)))

\* C13: no call changes a rule of ValidationSchemas.livro, so that a
\* validateLivro after a validateLivroUpdate still reports REQUIRED for
\* every required field the payload lacks.
C13_SchemasNeverMutated ==
  /\ schema = LivroSchema
  /\ \A i \in 1..4 : schema[i].rules[1].required
  /\ (last.op = "validateLivro" /\ thrown = NoException)
     => \A i \in DOMAIN MissingRequired :
          \E k \in DOMAIN errors : /\ errors[k].field = MissingRequired[i].field
                                    /\ errors[k].code = "REQUIRED"

\* C13 witness: a validateLivro that follows a validateLivroUpdate and
\* reports REQUIRED for the missing titulo.
C13_Witness ==
  /\ last.op = "validateLivro" /\ last.prev = "validateLivroUpdate"
  /\ "titulo" \notin DOMAIN data
  /\ result.taken /\ ~result.isValid
  /\ errors[1].field = "titulo" /\ errors[1].code = "REQUIRED"

(***************************************************************************)
(* Two Validator instances whose validateField steps interleave.  Here      *)
(* data is the heap: the sequence of the mappings that exist, the input    *)
(* mappings of the callers first; sanitizedData[k] holds the two            *)
(* references of instance k, this.data and this.sanitizedData, as indexes   *)
(* of the heap; errors[k] is its error list, thrown[k] the exception that   *)
(* left it, and last.pos[k] the number of entries of the schema it has      *)
(* validated.                                                               *)
(***************************************************************************)
\* this.data = data; this.sanitizedData = data: the caller's own mapping
NewValidatorAliased(heap, ref) ==
  [heap |-> Append(heap, Validator(heap[ref])), data |-> ref, sanitizedData |-> ref]

\* this.data = data; this.sanitizedData = { ...data }: a new mapping
NewValidator(heap, ref) ==
  [heap |-> Append(heap, Validator(heap[ref])), data |-> ref,
   sanitizedData |-> Len(heap) + 1]

\* validateField of the instance with references this: it reads
\* this.data[field], and writes this.errors and this.sanitizedData
stepField(heap, this, errs, field, rules) ==
  Let(validateField(heap[this.data], field, rules,
                    Run(errs, heap[this.sanitizedData], <<>>, "none")),
      LAMBDA r : [heap |-> [heap EXCEPT ![this.sanitizedData] = r.sanitizedData],
                  errors |-> r.errors, raised |-> r.raised])

Instances == {1, 2}

ValuesTwo ==
  {Absent, Str(<<"a", "s", "c">>),
   Str(<<"0", "3", "0", "6", "4", "0", "6", "1", "5", "2">>), Num(42)}

InputsTwo ==
  {[f \in ({"c"} \cup (IF va # Absent THEN {"a"} ELSE {})
                 \cup (IF pb THEN {"b"} ELSE {})) |->
      CASE f = "a" -> va [] f = "b" -> Str(<<"a", "s", "c">>) [] OTHER -> Num(7)] :
     va \in ValuesTwo, pb \in BOOLEAN}

RulesTwo ==
  {Rule("string", TRUE, 2, 5, "none", "none", "none", "toUpperCase", "none"),
   Rule("isbn", TRUE, NoBound, NoBound, "none", "none", "none", "none", "none"),
   Rule("number", FALSE, 1, 9, "none", "none", "none", "parseIntOr1", "none"),
   Rule("string", FALSE, NoBound, NoBound, "numero", "raises", "none", "none", "none")}

SchemasTwo == {<<Entry("a", <<ra>>), Entry("b", <<RuleB>>)>> : ra \in RulesTwo}

\* the callers' mappings: one that both instances are given, or one each
HeapsTwo ==
  {[heap |-> <<i1>>, refs |-> <<1, 1>>] : i1 \in InputsTwo}
  \cup {[heap |-> <<i1, i2>>, refs |-> <<1, 2>>] : i1 \in InputsTwo, i2 \in InputsTwo}

InitTwo ==
  /\ schema \in SchemasTwo
  /\ \E h \in HeapsTwo :
       \E v1 \in {NewValidator(h.heap, h.refs[1])} :
         \E v2 \in {NewValidator(v1.heap, h.refs[2])} :
           /\ data = v2.heap
           /\ sanitizedData = <<[data |-> v1.data, sanitizedData |-> v1.sanitizedData],
                                [data |-> v2.data, sanitizedData |-> v2.sanitizedData]>>
  /\ errors = <<<<>>, <<>>>>
  /\ thrown = <<NoException, NoException>>
  /\ result = NoResult
  /\ last = [op |-> "new", k |-> 0, pos |-> <<0, 0>>]

\* instance k validates the next entry of the schema
StepField(k) ==
  /\ last.pos[k] < Len(schema)
  /\ thrown[k] = NoException
  /\ \E r \in {stepField(data, sanitizedData[k], errors[k],
                         schema[last.pos[k] + 1].field, schema[last.pos[k] + 1].rules)} :
       /\ data' = r.heap
       /\ errors' = [errors EXCEPT ![k] = r.errors]
       /\ thrown' = [thrown EXCEPT ![k] = Raised(r)]
  /\ last' = [op |-> "validateField", k |-> k, pos |-> [last.pos EXCEPT ![k] = @ + 1]]
  /\ UNCHANGED <<schema, sanitizedData, result>>

NextTwo == \E k \in Instances : StepField(k)

SpecTwo == InitTwo /\ [][NextTwo]_vars

\* instance k run alone over its input mapping, up to its position
Alone(k) ==
  validateFields(data[sanitizedData[k].data], SubSeq(schema, 1, last.pos[k]),
                 Run(<<>>, Validator(data[sanitizedData[k].data]), <<>>, "none"))

SameAsAlone ==
  \A k \in Instances :
    /\ errors[k] = Alone(k).errors
    /\ data[sanitizedData[k].sanitizedData] = Alone(k).sanitizedData
    /\ thrown[k] = Raised(Alone(k))

InputsUntouched ==
  \A k \in Instances : data'[sanitizedData[k].data] = data[sanitizedData[k].data]

\* C14: in every interleaving of the validateField steps of two Validator
\* instances, over one input mapping or two, each instance has the errors
\* and the sanitizedData it has when run alone, and no step changes an
\* entry of an input mapping.
C14_NoSharedState == []SameAsAlone /\ [][InputsUntouched]_vars

\* C14 witness: both instances are given the same mapping, each has
\* validated field a and neither field b, the second stepped last; each
\* working copy holds the transformed value and the input still holds the
\* value it was given.
C14_Witness ==
  /\ last.op = "validateField" /\ last.k = 2 /\ last.pos = <<1, 1>>
  /\ sanitizedData[1].data = sanitizedData[2].data
  /\ sanitizedData[1].sanitizedData # sanitizedData[2].sanitizedData
  /\ Get(data[sanitizedData[1].data], "a") = Str(<<"a", "s", "c">>)
  /\ Get(data[sanitizedData[1].sanitizedData], "a") = Str(<<"A", "S", "C">>)
  /\ Get(data[sanitizedData[2].sanitizedData], "a") = Str(<<"A", "S", "C">>)

(***************************************************************************)
(* ValidationUtils.validate applied to one value: the checkers as their     *)
(* callers reach them.  data is the mapping { value } the call builds,      *)
(* schema the one rule { type } it validates with, result what getResult    *)
(* gives.  The caller may alter one character of the value once.            *)
(***************************************************************************)
\* ValidationUtils.validate(value, type): the run of the validator it builds
validate(value, type) ==
  validateField([value |-> value], "value",
                <<Rule(type, FALSE, NoBound, NoBound, "none", "none", "none", "none", "none")>>,
                Run(<<>>, Validator([value |-> value]), <<>>, "none"))

CheckedKinds == {"isbn", "cpf", "cnpj"}

\* ISBN-10 and ISBN-13 values with and without hyphens, CPF and CNPJ values
\* with and without punctuation, values of identical digits, other values
BaseStrings ==
  {<<"0", "3", "0", "6", "4", "0", "6", "1", "5", "2">>,
   <<"0", "8", "0", "4", "4", "2", "9", "5", "7", "X">>,
   <<"8", "5", "-", "3", "5", "9", "-", "0", "2", "7", "7", "-", "5">>,
   <<"1", "1", "1", "1", "1", "1", "1", "1", "1", "1">>,
   <<"9", "7", "8", "0", "3", "0", "6", "4", "0", "6", "1", "5", "7">>,
   <<"9", "7", "8", "-", "3", "-", "1", "6", "-", "1", "4", "8", "4", "1", "0", "-", "0">>,
   <<"9", "7", "8", "-", "8", "5", "-", "3", "5", "9", "-", "0", "2", "7", "7", "-", "3">>,
   <<"5", "2", "9", ".", "9", "8", "2", ".", "2", "4", "7", "-", "2", "5">>,
   <<"5", "2", "9", "9", "8", "2", "2", "4", "7", "2", "5">>,
   <<"1", "1", "1", ".", "1", "1", "1", ".", "1", "1", "1", "-", "1", "1">>,
   <<"0", "0", "0", ".", "0", "0", "0", ".", "0", "0", "0", "-", "0", "0">>,
   <<"1", "1", ".", "2", "2", "2", ".", "3", "3", "3", "/", "0", "0", "0", "1", "-", "8", "1">>,
   <<"1", "1", "2", "2", "2", "3", "3", "3", "0", "0", "0", "1", "8", "1">>,
   <<"1", "1", "1", "1", "1", "1", "1", "1", "1", "1", "1", "1", "1", "1">>,
   <<"a", "s", "c">>,
   <<"1", "2", "3", "4", "5">>}
  \cup {[i \in 1..11 |-> Digits[d]] : d \in DOMAIN Digits}
  \cup {<<"9", "7", "8", " ", "0", "3", "0", "6", "4", "0", "6", "1", "5", "7">>,
        <<"0", " ", "3", "0", "6", " ", "4", "0", "6", "1", "5", " ", "2">>}
  \cup {<<"9", "7", "8", "3", "1", "6", "1", "4", "8", "4", "1", "0", "0">>,
        <<"9", "7", "8", "8", "5", "3", "5", "9", "0", "2", "7", "7", "8">>,
        <<"9", "7", "9", "1", "0", "9", "0", "1", "4", "6", "1", "2", "9">>,
        <<"0", "0", "0", "0", "0", "0", "0", "0", "0", "0", "0", "0", "0">>,
        <<"1", "2", "3", "4", "5", "6", "7", "8", "9", "0", "1", "2", "8">>}
  \cup {<<"8", "5", "3", "5", "9", "0", "2", "7", "7", "5">>,
        <<"1", "2", "3", "4", "5", "6", "7", "8", "9", "X">>,
        <<"9", "9", "9", "9", "9", "9", "9", "9", "9", "9">>,
        <<"0", "2", "0", "1", "6", "1", "6", "2", "2", "X">>}

\* the characters an alteration writes
AlterChars == Range(Digits) \cup {"X", "x"}

Replace(s, i, c) == [s EXCEPT ![i] = c]

InitCheckers ==
  /\ \E s \in BaseStrings : data = [value |-> Str(s)]
  /\ schema = <<>>
  /\ errors = <<>>
  /\ sanitizedData = Validator(data)
  /\ result = NoResult
  /\ thrown = NoException
  /\ last = [op |-> "new", type |-> "none", altered |-> FALSE, calls |-> <<>>]

Validate(type) ==
  /\ \E r \in {validate(data["value"], type)} :
       /\ errors' = r.errors
       /\ sanitizedData' = r.sanitizedData
       /\ result' = Returns(r)
       /\ thrown' = Raised(r)
       /\ last' = [op |-> "validate", type |-> type, altered |-> last.altered,
                   calls |-> r.calls]
  /\ schema' = <<Entry("value", <<Rule(type, FALSE, NoBound, NoBound, "none", "none", "none",
                                        "none", "none")>>)>>
  /\ UNCHANGED data

\* the caller replaces one character of the value
Alter(i, c) ==
  /\ ~last.altered
  /\ i \in DOMAIN data["value"].s
  /\ data["value"].s[i] # c
  /\ data' = [value |-> Str(Replace(data["value"].s, i, c))]
  /\ schema' = <<>>
  /\ errors' = <<>>
  /\ sanitizedData' = Validator(data')
  /\ result' = NoResult
  /\ thrown' = NoException
  /\ last' = [op |-> "alter", type |-> "none", altered |-> TRUE, calls |-> <<>>]

MaxLength == 18

NextCheckers ==
  \/ \E type \in CheckedKinds : Validate(type)
  \/ \E i \in 1..MaxLength, c \in AlterChars : Alter(i, c)

SpecCheckers == InitCheckers /\ [][NextCheckers]_vars

\* the value validated, and the verdict of the checker on it
Value == data["value"].s
Checked(type) ==
  /\ last.op = "validate" /\ last.type = type
  /\ thrown = NoException /\ result.taken
  /\ \E k \in DOMAIN last.calls : last.calls[k].step = "checker"
Accepted == result.isValid

\* the value of a character of an ISBN: a digit's, 10 for a check character
ISBNCharValue(c) == IF IsDigit(c) THEN DigitValue(c) ELSE 10

\* the statement of the ISBN check, with the check characters given
ClaimISBN(s, checkChars) ==
  LET v == SelectSeq(s, LAMBDA c : c \notin {"-", " ", "\t", "\n"})
  IN  \/ /\ Len(v) = 10
         /\ \A i \in 1..9 : IsDigit(v[i])
         /\ IsDigit(v[10]) \/ v[10] \in checkChars
         /\ SumOver([i \in 1..10 |-> ISBNCharValue(v[i]) * (11 - i)], 10) % 11 = 0
      \/ /\ Len(v) = 13
         /\ \A i \in 1..13 : IsDigit(v[i])
         /\ SumOver([i \in 1..13 |->
                       DigitValue(v[i]) * (IF i % 2 = 1 THEN 1 ELSE 3)], 13) % 10 = 0

\* C15 as stated: the isbn checker accepts exactly the values that, without
\* hyphens and spaces, are ten characters, nine digits and a digit or X,
\* with weighted sum divisible by 11, or thirteen digits with weighted sum
\* divisible by 10.
C15_ISBNCheckerUppercaseX == Checked("isbn") => (Accepted = ClaimISBN(Value, {"X"}))

\* C15: the isbn checker accepts exactly the values that, without hyphens
\* and white space, are ten characters, nine digits and a digit or X or x
\* (valued 10), with the sum of value[i]*(10-i) divisible by 11, or thirteen
\* digits with the sum under weights 1,3,1,3,... divisible by 10; every
\* other length is rejected.
C15_ISBNCheckerAcceptsExactly == Checked("isbn") => (Accepted = ClaimISBN(Value, {"X", "x"}))

\* C15 witness: an ISBN-10 whose check character was altered to x, accepted.
C15_Witness ==
  /\ Checked("isbn") /\ Accepted /\ last.altered
  /\ Len(Value) = 10 /\ Value[10] = "x"

\* s with its last digit incremented by n modulo 10
IncrementLast(s, n) ==
  Replace(s, Len(s), Digits[((DigitValue(s[Len(s)]) + n) % 10) + 1])

\* C16: a string of 13 digits that the isbn checker accepts is rejected
\* once its last digit is incremented modulo 10.
C16_IncrementedLastDigitRejected ==
  (Checked("isbn") /\ Len(Value) = 13 /\ AllChars(Value, IsDigit))
  => /\ Accepted => validateISBN(Str(IncrementLast(Value, 1))) = Returned(FALSE)
     /\ validateISBN(Str(IncrementLast(Value, 9))) = Returned(TRUE) => ~Accepted

\* C16 witness: 9780306406157 with its last digit incremented, rejected.
C16_Witness ==
  /\ Checked("isbn") /\ ~Accepted /\ last.altered
  /\ Value = <<"9", "7", "8", "0", "3", "0", "6", "4", "0", "6", "1", "5", "8">>
  /\ validateISBN(Str(IncrementLast(Value, 9))) = Returned(TRUE)

\* the positions and digits whose replacement in s gives a value the isbn
\* checker accepts: s is that value with one digit replaced by another
ValidNeighbours(s) ==
  {<<i, d>> \in (DOMAIN s) \X Range(Digits) :
     /\ IsDigit(s[i]) /\ d # s[i]
     /\ validateISBN(Str(Replace(s, i, d))) = Returned(TRUE)}

\* C17: a valid ISBN-10 in which one digit is replaced by a different digit
\* is rejected by the isbn checker.
C17_SingleDigitChangeRejected ==
  (Checked("isbn") /\ Len(Value) = 10 /\ ValidNeighbours(Value) # {}) => ~Accepted

\* C17 witness: 0306406152 with one digit replaced, rejected.
C17_Witness ==
  /\ Checked("isbn") /\ ~Accepted /\ last.altered
  /\ Len(Value) = 10 /\ AllChars(Value, IsDigit)
  /\ \E n \in ValidNeighbours(Value) :
       Replace(Value, n[1], n[2]) = <<"0", "3", "0", "6", "4", "0", "6", "1", "5", "2">>

\* 0 if (sum mod 11) < 2, and 11 minus that remainder otherwise
ClaimCheckDigit(sum) == IF sum % 11 < 2 THEN 0 ELSE 11 - (sum % 11)

\* the statement of the CPF check over the digits of a value
ClaimCPF(s) ==
  LET d == SelectSeq(s, IsDigit)
  IN  /\ Len(d) = 11
      /\ \E i \in DOMAIN d : d[i] # d[1]
      /\ DigitValue(d[10]) =
           ClaimCheckDigit(SumOver([i \in 1..9 |-> DigitValue(d[i]) * (11 - i)], 9))
      /\ DigitValue(d[11]) =
           ClaimCheckDigit(SumOver([i \in 1..10 |-> DigitValue(d[i]) * (12 - i)], 10))

\* C18: the cpf checker accepts exactly the values whose digits are 11, not
\* all identical, with digit 10 the check digit of the first 9 under weights
\* 10..2 and digit 11 the check digit of the first 10 under weights 11..2.
C18_CPFCheckerAcceptsExactly == Checked("cpf") => (Accepted = ClaimCPF(Value))

\* C18 witness: 529.982.247-25 with its last digit replaced: the first check
\* digit fits and the second does not.
C18_Witness ==
  /\ Checked("cpf") /\ ~Accepted /\ last.altered
  /\ Len(Value) = 14 /\ IsDigit(Value[14])
  /\ Replace(Value, 14, "5") = <<"5", "2", "9", ".", "9", "8", "2", ".", "2", "4", "7", "-", "2", "5">>

CPFSample == <<"5", "2", "9", ".", "9", "8", "2", ".", "2", "4", "7", "-", "2", "5">>

\* s is w with exactly one digit replaced by a different digit
OneDigitChanged(s, w) ==
  /\ Len(s) = Len(w)
  /\ \E i \in DOMAIN s :
       /\ s[i] # w[i] /\ IsDigit(s[i]) /\ IsDigit(w[i])
       /\ \A j \in DOMAIN s : j # i => s[j] = w[j]

\* the digits of s are 11 and all identical
ElevenIdenticalDigits(s) ==
  LET d == SelectSeq(s, IsDigit)
  IN  Len(d) = 11 /\ \A i \in DOMAIN d : d[i] = d[1]

\* C19: the cpf checker accepts 529.982.247-25, rejects it with any one of
\* its digits changed, and rejects every value of 11 identical digits.
C19_CPFSampleAndAlterations ==
  Checked("cpf")
  => /\ Value = CPFSample => Accepted
     /\ OneDigitChanged(Value, CPFSample) => ~Accepted
     /\ ElevenIdenticalDigits(Value) => ~Accepted

\* C19 witness: 529.982.247-25 with one of its first nine digits changed,
\* rejected.
C19_Witness ==
  /\ Checked("cpf") /\ ~Accepted /\ last.altered
  /\ OneDigitChanged(Value, CPFSample)
  /\ Value[1] # "5"

ClaimWeights1 == <<5, 4, 3, 2, 9, 8, 7, 6, 5, 4, 3, 2>>
ClaimWeights2 == <<6, 5, 4, 3, 2, 9, 8, 7, 6, 5, 4, 3, 2>>

\* 14 digits, not all identical, whose digits 13 and 14 are the check digits
ClaimCNPJ(d) ==
  /\ Len(d) = 14
  /\ \E i \in DOMAIN d : d[i] # d[1]
  /\ DigitValue(d[13]) =
       ClaimCheckDigit(SumOver([i \in 1..12 |-> DigitValue(d[i]) * ClaimWeights1[i]], 12))
  /\ DigitValue(d[14]) =
       ClaimCheckDigit(SumOver([i \in 1..13 |-> DigitValue(d[i]) * ClaimWeights2[i]], 13))

\* the check digit positions and digits whose replacement in d gives 14
\* digits with the right check digits
ConsistentNeighbours(d) ==
  {<<p, c>> \in {13, 14} \X Range(Digits) :
     Len(d) = 14 /\ c # d[p] /\ ClaimCNPJ(Replace(d, p, c))}

\* C20: the cnpj checker accepts 14 digits that are not all identical and
\* end with their two check digits, and rejects them with either check
\* digit changed.
C20_CNPJCheckDigits ==
  Checked("cnpj")
  => /\ ClaimCNPJ(SelectSeq(Value, IsDigit)) => Accepted
     /\ ConsistentNeighbours(SelectSeq(Value, IsDigit)) # {} => ~Accepted

\* C20 witness: 11.222.333/0001-81 with its first check digit changed,
\* rejected.
C20_Witness ==
  /\ Checked("cnpj") /\ ~Accepted /\ last.altered
  /\ <<13, "8">> \in ConsistentNeighbours(SelectSeq(Value, IsDigit))
  /\ Len(Value) = 18

(***************************************************************************)
(* sanitizeInput (src/api-biblioteca/src/entity/Livro.ts).  A value of a    *)
(* request is a string, another leaf, a list of values or a mapping of      *)
(* values.  Here data is the request: its body, query and params.           *)
(***************************************************************************)
List(items) == [t |-> "list", items |-> items]
Mapping(members) == [t |-> "mapping", members |-> members]

RECURSIVE StripFrom(_, _)
\* the characters of s from position i on, without the spans /<[^>]*>/g
\* matches: a "<" with a later ">" starts a span that ends at the first ">"
StripFrom(s, i) ==
  IF i > Len(s) THEN <<>>
  ELSE IF s[i] = "<" /\ \E j \in (i + 1)..Len(s) : s[j] = ">"
  THEN StripFrom(s, (CHOOSE j \in (i + 1)..Len(s) :
                       s[j] = ">" /\ \A m \in (i + 1)..(j - 1) : s[m] # ">") + 1)
  ELSE <<s[i]>> \o StripFrom(s, i + 1)

\* replace(/<[^>]*>/g, '')
StripTags(s) == StripFrom(s, 1)

RECURSIVE CollapseFrom(_, _)
CollapseFrom(s, i) ==
  IF i > Len(s) THEN <<>>
  ELSE IF IsSpace(s[i])
  THEN IF i > 1 /\ IsSpace(s[i - 1]) THEN CollapseFrom(s, i + 1)
       ELSE <<" ">> \o CollapseFrom(s, i + 1)
  ELSE <<s[i]>> \o CollapseFrom(s, i + 1)

\* replace(/\s+/g, ' ')
CollapseSpaces(s) == CollapseFrom(s, 1)

\* the tags removed after the trim
sanitizeInputStringTrimFirst(value) ==
  IF value.t = "string" THEN Str(CollapseSpaces(StripTags(Trim(value.s)))) ELSE value

\* sanitizeString of sanitizeInput: tags removed, then trim, then collapse
sanitizeInputString(value) ==
  IF value.t = "string" THEN Str(CollapseSpaces(Trim(StripTags(value.s)))) ELSE value

RECURSIVE sanitizeObject(_)
sanitizeObject(obj) ==
  CASE obj.t = "list" -> List([i \in DOMAIN obj.items |-> sanitizeObject(obj.items[i])])
    [] obj.t = "mapping" ->
         Mapping([k \in DOMAIN obj.members |-> sanitizeObject(obj.members[k])])
    [] obj.t = "string" -> sanitizeInputString(obj)
    [] OTHER -> obj

\* if (req.body) req.body = sanitizeObject(req.body), and so for query, params
sanitizeInput(req) ==
  [k \in DOMAIN req |-> IF req[k] # Undefined THEN sanitizeObject(req[k]) ELSE req[k]]

MaxChars == 5
MaxPasses == 2

TagAlphabet == {"<", ">", " ", "b"}

Texts ==
  UNION {[1..n -> TagAlphabet] : n \in 0..MaxChars}
  \cup {<<" ", " ", "<", "b", ">", "H", "e", "l", "l", "o", "<", "/", "b", ">", " ", " ", " ", "w", "o", "r", "l", "d", " ", " ">>,
        <<"b", "\t", " ", "b", "\n">>}

Bodies ==
  {Undefined}
  \cup {Mapping([titulo |-> Str(s), anoPublicacao |-> Num(7)]) : s \in Texts}
  \cup {Mapping([tags |-> List(<<Str(s), Null, Bool(TRUE)>>)]) : s \in Texts}
  \cup {Mapping([autor |-> Mapping([nome |-> Str(s)])]) : s \in Texts}

InitSanitize ==
  /\ \E body \in Bodies :
       data = [body |-> body,
               query |-> Mapping([q |-> Str(<<" ", "<", "b", ">", " ", "b">>)]),
               params |-> Mapping([id |-> Str(<<"7">>)])]
  /\ schema = <<>>
  /\ errors = <<>>
  /\ sanitizedData = <<>>
  /\ result = NoResult
  /\ thrown = NoException
  /\ last = [op |-> "request", passes |-> 0]

\* the middleware runs over the request
SanitizeInput ==
  /\ last.passes < MaxPasses
  /\ data' = sanitizeInput(data)
  /\ last' = [op |-> "sanitizeInput", passes |-> last.passes + 1]
  /\ UNCHANGED <<schema, errors, sanitizedData, result, thrown>>

NextSanitize == SanitizeInput

SpecSanitize == InitSanitize /\ [][NextSanitize]_vars

RECURSIVE NonStringLeaves(_)
\* the value with every string leaf blanked
NonStringLeaves(v) ==
  CASE v.t = "list" -> List([i \in DOMAIN v.items |-> NonStringLeaves(v.items[i])])
    [] v.t = "mapping" ->
         Mapping([k \in DOMAIN v.members |-> NonStringLeaves(v.members[k])])
    [] v.t = "string" -> Str(<<>>)
    [] OTHER -> v

\* C21: the sanitizer is idempotent: a second pass over a request leaves
\* body, query and params as the first pass left them; every pass leaves
\* the shape of the request and its non-string leaves as they are.
C21_SanitizerIdempotent ==
  [][/\ last.passes >= 1 => data' = data
     /\ \A k \in DOMAIN data : NonStringLeaves(data'[k]) = NonStringLeaves(data[k])]_vars

\* C21 witness: "  <b>Hello</b>   world  " is "Hello world" after the second
\* pass, beside a number that passed through.
C21_Witness ==
  /\ last.passes = 2
  /\ data.body # Undefined
  /\ "titulo" \in DOMAIN data.body.members
  /\ data.body.members["titulo"] = Str(<<"H", "e", "l", "l", "o", " ", "w", "o", "r", "l", "d">>)
  /\ data.body.members["anoPublicacao"] = Num(7)

\* the codes the taxonomy names
TaxonomyCodes ==
  {"REQUIRED", "INVALID_EMAIL", "INVALID_CPF", "INVALID_CNPJ", "INVALID_CEP",
   "INVALID_PHONE", "INVALID_ISBN", "INVALID_UUID", "INVALID_JSON", "INVALID_BASE64",
   "WEAK_PASSWORD", "INVALID_ENUM_VALUE", "PATTERN_MISMATCH", "CUSTOM_VALIDATION_FAILED",
   "VALIDATION_FAILED"}

\* the last call was a validateField or a validateFields
FieldsValidated == last.op \in {"validateField", "validateFields"}

\* C22 as stated: every error item validateField and validateFields push
\* has a code of the taxonomy.
C22_TaxonomyCodesOnly ==
  FieldsValidated => \A k \in DOMAIN NewErrors : NewErrors[k].code \in TaxonomyCodes

\* C22: every error item validateField and validateFields push, for every
\* kind and failing step, has a code of the taxonomy or one of INVALID_URL
\* and INVALID_DATE, the codes of the kinds url and date.
C22_CodesOfTheKinds ==
  FieldsValidated
  => \A k \in DOMAIN NewErrors :
       NewErrors[k].code \in TaxonomyCodes \cup {"INVALID_URL", "INVALID_DATE"}

\* C22 witness: a value that is no URL under a rule of kind url.
C22_Witness ==
  /\ last.op = "validateField" /\ last.field = "a"
  /\ LastRules[1].type = "url"
  /\ Len(NewErrors) = 1 /\ NewErrors[1].code = "INVALID_URL"

(***************************************************************************)
(* ValidationUtils.validate(value, 'password', { min }): the password      *)
(* checker under a rule with and without a minimum length.                  *)
(***************************************************************************)
\* ValidationUtils.validate(value, type, options) with options { min }, or
\* no options when min is NoBound
validateWithMin(value, type, min) ==
  validateField([value |-> value], "value",
                <<Rule(type, FALSE, min, NoBound, "none", "none", "none", "none", "none")>>,
                Run(<<>>, Validator([value |-> value]), <<>>, "none"))

\* a password of the given length that holds an uppercase letter, a
\* lowercase letter, a digit and a symbol as told, and hyphens otherwise
Password(upper, lower, digit, symbol, length) ==
  LET marks == (IF upper THEN <<"A">> ELSE <<>>) \o (IF lower THEN <<"a">> ELSE <<>>)
               \o (IF digit THEN <<"1">> ELSE <<>>) \o (IF symbol THEN <<"!">> ELSE <<>>)
  IN  marks \o [i \in 1..(length - Len(marks)) |-> "-"]

PasswordLengths == {4, 7, 8, 9}

Passwords ==
  {Password(upper, lower, digit, symbol, length) :
     upper \in BOOLEAN, lower \in BOOLEAN, digit \in BOOLEAN, symbol \in BOOLEAN,
     length \in PasswordLengths}

\* the min of the rule: not given, 0, below 8, 8, above 8
PasswordMins == {NoBound, 0, 4, 8, 9}

InitPassword ==
  /\ \E p \in Passwords : data = [value |-> Str(p)]
  /\ schema = <<>>
  /\ errors = <<>>
  /\ sanitizedData = Validator(data)
  /\ result = NoResult
  /\ thrown = NoException
  /\ last = [op |-> "new", type |-> "none", altered |-> FALSE, calls |-> <<>>]

ValidatePassword(min) ==
  /\ \E r \in {validateWithMin(data["value"], "password", min)} :
       /\ errors' = r.errors
       /\ sanitizedData' = r.sanitizedData
       /\ result' = Returns(r)
       /\ thrown' = Raised(r)
       /\ last' = [op |-> "validate", type |-> "password", altered |-> FALSE,
                   calls |-> r.calls]
  /\ schema' = <<Entry("value", <<Rule("password", FALSE, min, NoBound, "none", "none",
                                        "none", "none", "none")>>)>>
  /\ UNCHANGED data

NextPassword == \E min \in PasswordMins : ValidatePassword(min)

SpecPassword == InitPassword /\ [][NextPassword]_vars

\* the min of the rule the last call validated with
RuleMin == schema[1].rules[1].min

\* C23: the password checker accepts a string exactly when its length is at
\* least the min of the rule, 8 only when the rule gives no min, and it
\* holds an uppercase letter, a lowercase letter, a digit and a symbol; a
\* given min, 0 and values below 8 included, is the bound applied.
C23_GivenMinIsApplied ==
  Checked("password")
  => (Accepted = (/\ Len(Value) >= (IF RuleMin = NoBound THEN 8 ELSE RuleMin)
                  /\ \E i \in DOMAIN Value : IsUpper(Value[i])
                  /\ \E i \in DOMAIN Value : IsLower(Value[i])
                  /\ \E i \in DOMAIN Value : IsDigit(Value[i])
                  /\ \E i \in DOMAIN Value : Value[i] \in PasswordSymbols))

(***************************************************************************)
(* Graceful shutdown (src/api-biblioteca/src/app.ts, startServer).  Here    *)
(* data is the process: the HTTP server and its open connections, the       *)
(* callbacks given to server.close (registered, then awaiting               *)
(* AppDataSource.destroy(), then done), the data source, the forced-exit    *)
(* timers that are armed and the exit code.  The server emits close when    *)
(* it has stopped listening and has no connection, also when close is       *)
(* called on it again; isInitialized turns false when destroy has           *)
(* disconnected, and a destroy resolves only then.                          *)
(***************************************************************************)
MaxShutdowns == 3
MaxConnections == 2

Signals == {"SIGTERM", "SIGINT", "UNCAUGHT_EXCEPTION", "UNHANDLED_REJECTION"}

\* gracefulShutdown without its setTimeout
gracefulShutdownNoTimer(process) ==
  [process EXCEPT !.server = IF @ = "listening" THEN "closing" ELSE @,
                  !.callbacks = Append(@, "registered")]

\* gracefulShutdown(signal): server.close(callback), then the timer of 10 s
gracefulShutdown(process) ==
  [process EXCEPT !.server = IF @ = "listening" THEN "closing" ELSE @,
                  !.callbacks = Append(@, "registered"),
                  !.timers = @ + 1]

\* the callback of server.close up to its await, or to its process.exit(0)
\* when the data source is not initialized
closeCallback(process, i) ==
  IF process.exit # "running" THEN process
  ELSE IF process.db # "destroyed"
  THEN [process EXCEPT !.db = "destroying", !.callbacks[i] = "awaiting"]
  ELSE [process EXCEPT !.callbacks[i] = "done", !.exit = "0"]

RECURSIVE emitClose(_, _)
\* the close event: every registered callback is called, in order
emitClose(process, i) ==
  IF i > Len(process.callbacks) THEN process
  ELSE IF process.callbacks[i] = "registered"
  THEN emitClose(closeCallback(process, i), i + 1)
  ELSE emitClose(process, i + 1)

InitShutdown ==
  /\ \E connections \in 0..MaxConnections :
       data = [server |-> "listening", connections |-> connections, callbacks |-> <<>>,
               db |-> "initialized", timers |-> 0, exit |-> "running"]
  /\ schema = <<>>
  /\ errors = <<>>
  /\ sanitizedData = <<>>
  /\ result = NoResult
  /\ thrown = NoException
  /\ last = [op |-> "listen", signal |-> "none"]

\* a client connects
ConnectionOpens ==
  /\ data.exit = "running" /\ data.server = "listening"
  /\ data.connections < MaxConnections
  /\ data' = [data EXCEPT !.connections = @ + 1]
  /\ last' = [op |-> "connection", signal |-> "none"]
  /\ UNCHANGED <<schema, errors, sanitizedData, result, thrown>>

\* a connection ends
ConnectionEnds ==
  /\ data.exit = "running" /\ data.connections > 0
  /\ data' = [data EXCEPT !.connections = @ - 1]
  /\ last' = [op |-> "connection", signal |-> "none"]
  /\ UNCHANGED <<schema, errors, sanitizedData, result, thrown>>

\* process.on(signal, ...): a signal, an uncaught exception or an unhandled
\* rejection that comes from elsewhere in the process
Signal(signal) ==
  /\ data.exit = "running"
  /\ Len(data.callbacks) < MaxShutdowns
  /\ data' = gracefulShutdown(data)
  /\ last' = [op |-> "signal", signal |-> signal]
  /\ UNCHANGED <<schema, errors, sanitizedData, result, thrown>>

\* the server has stopped listening and has no connection left
EmitClose ==
  /\ data.exit = "running"
  /\ data.server # "listening" /\ data.connections = 0
  /\ \E i \in DOMAIN data.callbacks : data.callbacks[i] = "registered"
  /\ data' = emitClose([data EXCEPT !.server = "closed"], 1)
  /\ last' = [op |-> "close", signal |-> "none"]
  /\ UNCHANGED <<schema, errors, sanitizedData, result, thrown>>

\* await AppDataSource.destroy() resolves: the callback goes on to exit(0)
DestroyResolves(i) ==
  /\ data.exit = "running"
  /\ i \in DOMAIN data.callbacks /\ data.callbacks[i] = "awaiting"
  /\ data' = [data EXCEPT !.db = "destroyed", !.callbacks[i] = "done", !.exit = "0"]
  /\ last' = [op |-> "destroyed", signal |-> "none"]
  /\ UNCHANGED <<schema, errors, sanitizedData, result, thrown>>

\* await AppDataSource.destroy() rejects: the rejection of the callback is
\* unhandled, and its handler calls gracefulShutdown
DestroyRejects(i) ==
  /\ data.exit = "running"
  /\ i \in DOMAIN data.callbacks /\ data.callbacks[i] = "awaiting"
  /\ Len(data.callbacks) < MaxShutdowns
  /\ data' = gracefulShutdown([data EXCEPT !.callbacks[i] = "done"])
  /\ last' = [op |-> "signal", signal |-> "UNHANDLED_REJECTION"]
  /\ UNCHANGED <<schema, errors, sanitizedData, result, thrown>>

\* a timer of 10 s fires
ForcedExit ==
  /\ data.exit = "running"
  /\ data.timers > 0
  /\ data' = [data EXCEPT !.exit = "1"]
  /\ last' = [op |-> "timeout", signal |-> "none"]
  /\ UNCHANGED <<schema, errors, sanitizedData, result, thrown>>

NextShutdown ==
  \/ ConnectionOpens
  \/ ConnectionEnds
  \/ \E signal \in Signals : Signal(signal)
  \/ EmitClose
  \/ \E i \in 1..MaxShutdowns : DestroyResolves(i)
  \/ \E i \in 1..MaxShutdowns : DestroyRejects(i)
  \/ ForcedExit

\* an armed timer fires: the event loop of the process keeps running
SpecShutdown == InitShutdown /\ [][NextShutdown]_vars /\ WF_vars(ForcedExit)

\* the data source is touched only once the server has closed, and exit
\* code 0 comes only once the server has closed and the data source is
\* destroyed
ShutdownOrder ==
  /\ data.db # "initialized" => data.server = "closed"
  /\ data.exit = "0" => (data.server = "closed" /\ data.db = "destroyed")

ShutdownStarted == data.callbacks # <<>>
Exited == data.exit # "running"

\* C24: after a signal, an uncaught exception or an unhandled rejection the
\* data source is destroyed only after the HTTP server has closed, exit
\* code 0 comes only after both, and the process eventually exits, by the
\* forced-exit timer with code 1 when closing does not complete, also when
\* more signals come during the shutdown.
C24_GracefulShutdown == []ShutdownOrder /\ (ShutdownStarted ~> Exited)

\* C24 witness: two shutdowns were started, the server closed after its
\* connections ended, the data source was destroyed and the process exited
\* with code 0.
C24_Witness ==
  /\ data.exit = "0" /\ data.server = "closed" /\ data.db = "destroyed"
  /\ Len(data.callbacks) >= 2 /\ data.timers >= 2

\* a validateField step on a field whose value is absent, null or '' and
\* none of whose rules is required
EmptyOptionalStep ==
  /\ last'.op = "validateField"
  /\ IsEmptyValue(Get(data, last'.field))
  /\ \A k \in DOMAIN EntryOf(last'.field).rules : ~EntryOf(last'.field).rules[k].required

\* C25: when the value of a field is absent, null or '' and the rule is not
\* required, the rule succeeds at once: validateField pushes no error,
\* invokes neither the transform nor any other member of the rule, raises
\* nothing and leaves sanitizedData as it was.
C25_EmptyOptionalIsNoOp ==
  [][EmptyOptionalStep
     => /\ errors' = errors
        /\ sanitizedData' = sanitizedData
        /\ last'.calls = <<>>
        /\ thrown' = NoException]_vars

\* C25 witness: as pagina of ValidationSchemas.paginacao, the field is
\* absent and its rules are not required and carry a transform with a
\* default; validateField left no error and no entry in sanitizedData.
C25_Witness ==
  /\ last.op = "validateField" /\ last.field = "a"
  /\ "a" \notin DOMAIN data
  /\ Len(LastRules) = 2
  /\ \A k \in DOMAIN LastRules : ~LastRules[k].required
  /\ LastRules[2].transform = "parseIntOr1"
  /\ errors = <<>> /\ last.calls = <<>>
  /\ "a" \notin DOMAIN sanitizedData

(***************************************************************************)
(* validationMiddleware (validators.ts).  Here data is the request: its    *)
(* body, query and params and its validatedData member; errors and         *)
(* sanitizedData are those of the Validator the middleware built; last     *)
(* holds the merged mapping and the arguments of the calls of next, where  *)
(* NoException stands for a call with no argument; thrown is the exception *)
(* that left the middleware.                                               *)
(***************************************************************************)
\* { ...req.body, ...req.query, ...req.params }
Merge(body, query, params) ==
  [f \in DOMAIN body \cup DOMAIN query \cup DOMAIN params |->
     IF f \in DOMAIN params THEN params[f]
     ELSE IF f \in DOMAIN query THEN query[f]
     ELSE body[f]]

NotSet == [set |-> FALSE, value |-> <<>>]
SetTo(value) == [set |-> TRUE, value |-> value]

\* the handler validationMiddleware(schema) returns, applied to a request
validationMiddleware(fields, req) ==
  LET merged == Merge(req.body, req.query, req.params)
      run == validateFields(merged, fields, Run(<<>>, Validator(merged), <<>>, "none"))
  IN  IF run.raised # "none"
      THEN [req |-> req, merged |-> merged, run |-> run, next |-> <<>>]
      ELSE IF ~getResult(run.errors).isValid
      THEN [req |-> req, merged |-> merged, run |-> run,
            next |-> <<ValidationError("Erro de validacao", run.errors, DefaultStatusCode)>>]
      ELSE [req |-> [req EXCEPT !.validatedData = SetTo(run.sanitizedData)],
            merged |-> merged, run |-> run, next |-> <<NoException>>]

\* a source of the request with members a and b, each present or not
Source(a, b) ==
  LET members == [a |-> a, b |-> b]
  IN  [f \in {k \in DOMAIN members : members[k] # Absent} |-> members[f]]

Bodies26 ==
  {Source(a, b) : a \in {Absent, Str(<<"a", "s", "c">>), Num(42)},
                  b \in {Absent, Str(<<"b", "o", "d", "y">>)}}
Queries ==
  {Source(a, b) : a \in {Absent, Str(<<"0", "3", "0", "6", "4", "0", "6", "1", "5", "2">>)},
                  b \in {Absent, Str(<<"q", "u", "e", "r", "y">>)}}
Params ==
  {Source(a, b) : a \in {Absent, Str(<<"d", "e", "s", "c">>)},
                  b \in {Absent, Str(<<"p">>)}}

Requests ==
  {[body |-> body, query |-> query, params |-> params, validatedData |-> NotSet] :
     body \in Bodies26, query \in Queries, params \in Params}

SchemasMiddleware ==
  {<<Entry("a", <<ra>>), Entry("b", <<RuleB>>)>> : ra \in RulesTwo}

InitMiddleware ==
  /\ data \in Requests
  /\ schema \in SchemasMiddleware
  /\ errors = <<>>
  /\ sanitizedData = <<>>
  /\ result = NoResult
  /\ thrown = NoException
  /\ last = [op |-> "request", merged |-> <<>>, next |-> <<>>]

\* the handler runs on the request
ValidationMiddleware ==
  /\ last.op = "request"
  /\ \E r \in {validationMiddleware(schema, data)} :
       /\ data' = r.req
       /\ errors' = r.run.errors
       /\ sanitizedData' = r.run.sanitizedData
       /\ thrown' = Raised(r.run)
       /\ last' = [op |-> "middleware", merged |-> r.merged, next |-> r.next]
  /\ UNCHANGED <<schema, result>>

\* the next request comes
NextRequest ==
  /\ last.op = "middleware"
  /\ data' \in Requests
  /\ errors' = <<>>
  /\ sanitizedData' = <<>>
  /\ thrown' = NoException
  /\ last' = [op |-> "request", merged |-> <<>>, next |-> <<>>]
  /\ UNCHANGED <<schema, result>>

NextMiddleware == ValidationMiddleware \/ NextRequest

SpecMiddleware == InitMiddleware /\ [][NextMiddleware]_vars

\* the member of the merged mapping comes from params, else query, else body
MergedByPrecedence ==
  /\ DOMAIN last.merged = DOMAIN data.body \cup DOMAIN data.query \cup DOMAIN data.params
  /\ \A f \in DOMAIN last.merged :
       last.merged[f] = (IF f \in DOMAIN data.params THEN data.params[f]
                         ELSE IF f \in DOMAIN data.query THEN data.query[f]
                         ELSE data.body[f])

\* C26: the middleware merges body, query and params with params over
\* query over body, and calls next exactly once for every request: with a
\* ValidationError that carries all the errors, req.validatedData not set,
\* when validation fails, and with no argument, req.validatedData set to
\* the sanitizedData, when it passes.
C26_NextExactlyOnce ==
  last.op = "middleware"
  => /\ MergedByPrecedence
     /\ Len(last.next) = 1
     /\ IF errors # <<>>
        THEN /\ last.next[1].name = "ValidationError"
             /\ last.next[1].errors = errors
             /\ ~data.validatedData.set
        ELSE /\ last.next[1] = NoException
             /\ data.validatedData = SetTo(sanitizedData)

\* s is an initial segment of q
IsPrefix(s, q) == Len(s) <= Len(q) /\ SubSeq(q, 1, Len(s)) = s

\* a validateField step on the field the step before it was about, which
\* pushed an error item for it
SameFailingFieldAgain ==
  /\ last.op = "validateField" /\ Len(errors) = last.errs0 + 1
  /\ last'.op = "validateField" /\ last'.field = last.field
  /\ last'.errs0 = Len(errors)

\* C27: on one Validator the error list only grows: every operation keeps
\* the items there are, in their order; once getResult has reported
\* isValid = false every later getResult reports it too; and validating the
\* same failing field a second time pushes a second, equal item for it.
C27_ErrorsOnlyGrow ==
  [][/\ IsPrefix(errors, errors')
     /\ (result.taken /\ ~result.isValid) => (result'.taken /\ ~result'.isValid)
     /\ SameFailingFieldAgain => errors' = Append(errors, errors[Len(errors)])]_vars

\* C27 witness: validateField failed on a field, getResult reported
\* isValid = false, and validateField on the same field left a second,
\* equal item.
C27_Witness ==
  /\ last.op = "validateField" /\ last.errs0 = 1
  /\ Len(errors) = 2 /\ errors[1] = errors[2] /\ errors[2].field = last.field
  /\ result.taken /\ ~result.isValid
  /\ Len(ResultErrors) = 2

\* rule i of the last field, alone on the raw value, ends the loop: it
\* reports an error or raises
StopsAt(i) == RuleAlone(i).error # NoError \/ RuleAlone(i).raised # "none"

\* the last rule of the list the loop evaluates
LastEvaluated ==
  IF \E i \in DOMAIN LastRules : StopsAt(i)
  THEN CHOOSE i \in DOMAIN LastRules : StopsAt(i) /\ \A j \in 1..(i - 1) : ~StopsAt(j)
  ELSE Len(LastRules)

WithTransform == {i \in 1..LastEvaluated : LastRules[i].transform # "none"}
LastTransformed == CHOOSE i \in WithTransform : \A j \in WithTransform : j <= i

\* the transform of rule i applied to the raw value
OwnTransform(i) == ApplyTransform(LastRules[i].transform, LastValue)

\* the outcome of the list is that of its rules taken one by one on the raw
\* value, and the entry of the field is the output, on the raw value, of
\* the transform of the last evaluated rule that has one
TransformsDoNotChain ==
  /\ NewErrors = (IF RuleAlone(LastEvaluated).error # NoError
                  THEN <<RuleAlone(LastEvaluated).error>> ELSE <<>>)
  /\ thrown = Raised(RuleAlone(LastEvaluated))
  /\ (WithTransform # {} /\ OwnTransform(LastTransformed).raised = "none")
     => /\ last.field \in DOMAIN sanitizedData
        /\ sanitizedData[last.field] = OwnTransform(LastTransformed).value

\* C28 as stated: after validateField on a rule list, for every value.
C28_TransformsDoNotChain == last.op = "validateField" => TransformsDoNotChain

\* C28: in a rule list transforms do not chain: for a value that is not
\* undefined, null or '', every rule is checked against the output of its
\* own transform on the raw value (the raw value when it has none), and
\* sanitizedData[field] ends up as the output of the transform of the last
\* evaluated rule that has one; for an empty value no transform is applied.
C28_TransformsOfPresentValue ==
  last.op = "validateField"
  => IF IsEmptyValue(LastValue)
     THEN Get(sanitizedData, last.field) = LastValue
     ELSE TransformsDoNotChain

\* C28 witness: a list of two rules with transforms passed on 'asc':
\* parseInt(value) || 1 gave 1 for the first rule, and the entry holds
\* 'ASC', the output of the second rule's transform on the raw value.
C28_Witness ==
  /\ last.op = "validateField" /\ last.field = "a"
  /\ Len(LastRules) = 2
  /\ LastRules[1].transform = "parseIntOr1" /\ LastRules[2].transform = "toUpperCase"
  /\ Get(data, "a") = Str(<<"a", "s", "c">>)
  /\ OwnTransform(1).value = Num(1)
  /\ sanitizedData["a"] = Str(<<"A", "S", "C">>)
  /\ NewErrors = <<>> /\ thrown = NoException

(***************************************************************************)
(* ValidationUtils.sanitizeString (validators.ts).  Here data is the       *)
(* string, replaced by the output of each pass; last counts the passes.    *)
(***************************************************************************)
\* [`~!@#$%^&*()_|+\-=?;:'",.<>\{\}\[\]\\\/]
\* (the grave accent, which a string of this language cannot hold, by name)
SpecialChars ==
  {"grave", "~", "!", "@", "#", "$", "%", "^", "&", "*", "(", ")", "_", "|", "+", "-", "=",
   "?", ";", ":", "'", "\"", ",", ".", "<", ">", "{", "}", "[", "]", "\\", "/"}

\* replace(/[...]/g, '')
DeleteSpecial(s) == SelectSeq(s, LAMBDA c : c \notin SpecialChars)

\* input.trim().replace(/<[^>]*>/g, '').replace(/\s+/g, ' ').replace(/[...]/g, '')
sanitizeString(input) == Str(DeleteSpecial(CollapseSpaces(StripTags(Trim(input.s)))))

SpecialAlphabet == {"<", ">", " ", "b", "-"}

Inputs29 ==
  {Str(s) : s \in UNION {[1..n -> SpecialAlphabet] : n \in 0..MaxChars}}

InitSanitizeString ==
  /\ data \in Inputs29
  /\ schema = <<>>
  /\ errors = <<>>
  /\ sanitizedData = <<>>
  /\ result = NoResult
  /\ thrown = NoException
  /\ last = [op |-> "input", passes |-> 0]

SanitizeString ==
  /\ last.passes < MaxPasses
  /\ data' = sanitizeString(data)
  /\ last' = [op |-> "sanitizeString", passes |-> last.passes + 1]
  /\ UNCHANGED <<schema, errors, sanitizedData, result, thrown>>

NextSanitizeString == SanitizeString

SpecSanitizeString == InitSanitizeString /\ [][NextSanitizeString]_vars

\* C29: sanitizeString is idempotent: a second pass leaves the string as the
\* first pass left it, and the output of a pass has no white space at its
\* start or end.
C29_SanitizeStringIdempotent ==
  [][/\ last.passes >= 1 => data' = data
     /\ Trim(data'.s) = data'.s]_vars

(***************************************************************************)
(* The two ISBN implementations: LivroService.validarISBN and               *)
(* LivroValidators.validateISBN, which goes through                         *)
(* ValidationUtils.validate(isbn, 'isbn').  Here data holds the string;     *)
(* last holds what each implementation returned for it ("none" before the   *)
(* call).  The caller may alter one character of the string once.           *)
(***************************************************************************)
\* LivroService.validarISBN10
validarISBN10(isbn) ==
  IF \E i \in 1..9 : ParseIntChar(isbn[i]) = -1 THEN FALSE
  ELSE LET soma == SumOver([i \in 1..9 |-> ParseIntChar(isbn[i]) * (11 - i)], 9)
           ultimoChar == ToUpperChar(isbn[10])
           ultimoDigito == IF ultimoChar = "X" THEN 10 ELSE ParseIntChar(ultimoChar)
       IN  IF ultimoDigito = -1 THEN FALSE
           ELSE (soma + ultimoDigito) % 11 = 0

\* LivroService.validarISBN13
validarISBN13(isbn) ==
  IF \E i \in 1..13 : ParseIntChar(isbn[i]) = -1 THEN FALSE
  ELSE SumOver([i \in 1..13 |->
                  ParseIntChar(isbn[i]) * (IF (i - 1) % 2 = 0 THEN 1 ELSE 3)], 13) % 10 = 0

\* LivroService.validarISBN
validarISBN(isbn) ==
  LET isbnLimpo == SelectSeq(isbn, LAMBDA c : c # "-" /\ ~IsSpace(c))
  IN  IF Len(isbnLimpo) = 10 THEN validarISBN10(isbnLimpo)
      ELSE IF Len(isbnLimpo) = 13 THEN validarISBN13(isbnLimpo)
      ELSE FALSE

\* LivroValidators.validateISBN
LivroValidatorsValidateISBN(isbn) == getResult(validate(Str(isbn), "isbn").errors).isValid

BoolString(b) == IF b THEN "true" ELSE "false"

\* the strings of the checkers, the empty string and strings of white space
\* and hyphens
ISBNStrings == BaseStrings \cup {<<>>, <<" ">>, <<"-">>}

InitISBN ==
  /\ \E s \in ISBNStrings : data = [value |-> Str(s)]
  /\ schema = <<>>
  /\ errors = <<>>
  /\ sanitizedData = <<>>
  /\ result = NoResult
  /\ thrown = NoException
  /\ last = [op |-> "new", service |-> "none", engine |-> "none", altered |-> FALSE]

ValidarISBN ==
  /\ last' = [last EXCEPT !.op = "validarISBN",
                          !.service = BoolString(validarISBN(data["value"].s))]
  /\ UNCHANGED <<data, schema, errors, sanitizedData, result, thrown>>

ValidateISBN ==
  /\ last' = [last EXCEPT !.op = "validateISBN",
                          !.engine = BoolString(LivroValidatorsValidateISBN(data["value"].s))]
  /\ UNCHANGED <<data, schema, errors, sanitizedData, result, thrown>>

AlterISBN(i, c) ==
  /\ ~last.altered
  /\ i \in DOMAIN data["value"].s
  /\ data["value"].s[i] # c
  /\ data' = [value |-> Str(Replace(data["value"].s, i, c))]
  /\ last' = [op |-> "alter", service |-> "none", engine |-> "none", altered |-> TRUE]
  /\ UNCHANGED <<schema, errors, sanitizedData, result, thrown>>

NextISBN ==
  \/ ValidarISBN
  \/ ValidateISBN
  \/ \E i \in 1..MaxLength, c \in AlterChars : AlterISBN(i, c)

SpecISBN == InitISBN /\ [][NextISBN]_vars

\* C30: the two ISBN implementations agree: for every string,
\* LivroService.validarISBN returns the boolean the engine's isbn checker
\* returns through LivroValidators.validateISBN, for ISBN-10, ISBN-13 and
\* every other length.
C30_ISBNImplementationsAgree ==
  (last.service # "none" /\ last.engine # "none") => last.service = last.engine

====
